---- MODULE Spec2Model ----
(***************************************************************************)
(* Label layout and PDF export of qr-barcode-pdf-generator.                *)
(*                                                                         *)
(* One run of the program: Config._validate resolves the page grid,        *)
(* LayoutEngine.__init__ freezes it, PDFExporter.export walks the entries  *)
(* and places each drawn label with the LayoutEngine position functions.   *)
(*                                                                         *)
(* Python numbers (int and float) are modelled as exact rationals          *)
(* <<numerator, denominator>> in lowest terms with a positive denominator; *)
(* floating-point rounding is abstracted away.  Python's None is the empty *)
(* tuple.  A raised Python exception is a result record whose field        *)
(* "raised" names the exception class.                                     *)
(***************************************************************************)
EXTENDS Integers, Sequences, FiniteSets, TLC

VARIABLES
    pc,            \* where the run is: "config", "validated", "export", "done", "exit1" (reported
                   \* error), "crashed" (uncaught exception), "export_failed" (exception caught
                   \* around export, exit 1); "ready" / "returned" around a direct position call
    error,         \* why the run stopped ("" while it has not)
    raw,           \* the merged configuration handed to Config._validate
    config,        \* Config.config after _validate (None before)
    engine,        \* the LayoutEngine fields (None before construction)
    numEntries,    \* len(entries) of the loaded CSV
    index,         \* loop index of the export loop
    successful,    \* PDFExporter export counter
    skipped,       \* PDFExporter export counter
    current_page,  \* PDFExporter.current_page
    canvas,        \* PDFExporter.canvas: "None", "open", "saved"
    pageBreaks,    \* number of canvas.showPage() calls
    drawn,         \* sequence of [index, page, position, texts]: the labels drawn, the physical
                   \* page each was drawn on, where its content went and the captions drawn
    result,        \* the last position-function call: [op, index, arg, value]
    warnings,      \* the warnings Config._validate has written to stderr
    exporter,      \* the PDFExporter fields set at construction (None before): which
                   \* generators main() handed over, is_marker_mode, output_path
    fs,            \* the file system: [existed, written], the paths that existed when the
                   \* run started and the paths the run has written
    loader,        \* DataLoader.load: [row_num, row, outcome, entries]
    inputs         \* Config.__init__: [defaults, yaml, kwargs], the three sources merged

vars == <<pc, error, raw, config, engine, numEntries, index, successful,
          skipped, current_page, canvas, pageBreaks, drawn, result, warnings,
          exporter, fs, loader, inputs>>

-----------------------------------------------------------------------------
(* Bounds of the model.                                                    *)

MaxEntries == 2
MaxIndex == 21
MaxCell == 3

-----------------------------------------------------------------------------
(* Python values.                                                          *)

None == <<>>

Abs(x) == IF x < 0 THEN -x ELSE x

RECURSIVE GCD(_, _)
GCD(a, b) == IF b = 0 THEN a ELSE GCD(b, a % b)

LCM(a, b) == (a \div GCD(a, b)) * b

Norm(n, d) ==
    LET s == IF d < 0 THEN -1 ELSE 1
        g == GCD(Abs(n), Abs(d))
    IN  <<(s * n) \div g, (s * d) \div g>>

Q(n) == <<n, 1>>

QAdd(a, b) ==
    LET L == LCM(a[2], b[2])
    IN  Norm(a[1] * (L \div a[2]) + b[1] * (L \div b[2]), L)

QNeg(a) == <<-a[1], a[2]>>

QSub(a, b) == QAdd(a, QNeg(b))

QMul(a, b) ==
    LET g1 == GCD(Abs(a[1]), b[2])
        g2 == GCD(Abs(b[1]), a[2])
    IN  Norm((a[1] \div g1) * (b[1] \div g2), (a[2] \div g2) * (b[2] \div g1))

QIsZero(a) == a[1] = 0

\* Python "/" on a non-zero divisor
QDiv(a, b) == QMul(a, Norm(b[2], b[1]))

QHalf(a) == QDiv(a, Q(2))

QLt(a, b) ==
    LET L == LCM(a[2], b[2])
    IN  a[1] * (L \div a[2]) < b[1] * (L \div b[2])

QLe(a, b) == a = b \/ QLt(a, b)

\* Python int(x): truncation toward zero
PyInt(a) ==
    IF a[1] >= 0 THEN a[1] \div a[2] ELSE -((-a[1]) \div a[2])

\* mathematical floor
QFloor(a) == a[1] \div a[2]

-----------------------------------------------------------------------------
(* Config: the merged configuration and its validation (src/config.py).    *)

A4_WIDTH_MM == 210
A4_HEIGHT_MM == 297

\* The inputs the run is started with.  Every number is a Python number.
Margins == {Q(10), Q(100)}
LabelDims == {<<None, None>>, <<Q(60), Q(40)>>, <<Q(190), Q(277)>>,
              <<Q(80), Q(40)>>, <<Q(200), Q(40)>>, <<Q(0), Q(40)>>}
GridCounts == {<<None, None>>, <<Q(3), Q(7)>>, <<Q(1), Q(2)>>,
               <<Q(0), Q(7)>>, <<Q(50), Q(7)>>}
Gaps == {Q(0), Q(5)}
Arrangements == {"horizontal", "vertical"}
TextPositions == {"top", "bottom", "none"}
TextAlignments == {"left", "center", "right"}
\* marker sections of the YAML file: which marker family is enabled and
\* whether numeric ids are auto-assigned
MarkerModes == {[aruco |-> FALSE, apriltag |-> FALSE, auto_assign |-> TRUE],
                [aruco |-> TRUE,  apriltag |-> FALSE, auto_assign |-> TRUE],
                [aruco |-> FALSE, apriltag |-> TRUE,  auto_assign |-> FALSE]}

\* a file path as pathlib sees it: its stem and its suffix
Path(stem, suffix) == [stem |-> stem, suffix |-> suffix]

RawConfig(m, dims, grid, gap, arr, pos, align, mode) ==
    [input |-> [csv |-> Path("ids", ".csv")],
     output |-> [file |-> Path("output", ".pdf"), margin_mm |-> m,
                 overwrite |-> FALSE],
     layout |-> [label_width_mm |-> dims[1],
                 label_height_mm |-> dims[2],
                 labels_per_row |-> grid[1],
                 labels_per_column |-> grid[2],
                 horizontal_gap_mm |-> gap,
                 vertical_gap_mm |-> gap,
                 code_arrangement |-> arr,
                 code_spacing_mm |-> Q(5)],
     qr |-> [size_mm |-> Q(25)],
     barcode |-> [height_mm |-> Q(15)],
     text |-> [font_size |-> Q(10), position |-> pos,
               alignment |-> align, margin_mm |-> Q(2)],
     aruco |-> [enabled |-> mode.aruco],
     apriltag |-> [enabled |-> mode.apriltag],
     id_assignment |-> [auto_assign_numeric_ids |-> mode.auto_assign,
                        start_index |-> IF mode.aruco THEN 7 ELSE 0]]

RawConfigs ==
    {RawConfig(m, dims, grid, gap, arr, pos, align, mode) :
        m \in Margins, dims \in LabelDims, grid \in GridCounts, gap \in Gaps,
        arr \in Arrangements, pos \in TextPositions,
        align \in TextAlignments, mode \in MarkerModes}

\* one configuration to vary single settings of: the built-in grid, a YAML
\* file with complete marker sections, markers disabled
BaseConfig ==
    RawConfig(Q(10), <<None, None>>, <<Q(3), Q(7)>>, Q(5), "horizontal",
              "bottom", "center",
              [aruco |-> FALSE, apriltag |-> FALSE, auto_assign |-> TRUE])

\* margins at and around the limits of validation
EdgeMargins == {Q(0), Q(95), Q(96), Q(0 - 5)}
MarginConfigs ==
    {[BaseConfig EXCEPT !.output.margin_mm = m, !.text.position = pos] :
        m \in EdgeMargins, pos \in {"bottom", "none"}}

\* a configuration without the named top-level sections
WithoutSections(c, absent) == [k \in DOMAIN c \ absent |-> c[k]]

\* marker sections as the built-in defaults leave them (absent), as the
\* --aruco-enabled / --apriltag-enabled flags alone create them, and with both
\* marker families enabled
SectionConfigs ==
    {WithoutSections([BaseConfig EXCEPT !.aruco.enabled = a, !.text.position = pos],
                     absent) :
        a \in BOOLEAN, pos \in {"bottom", "none"},
        absent \in {{"aruco", "apriltag", "id_assignment"},
                    {"apriltag", "id_assignment"}, {"id_assignment"}}}
      \cup
    {WithoutSections([BaseConfig EXCEPT !.apriltag.enabled = TRUE], {"aruco"})}
      \cup
    {[BaseConfig EXCEPT !.aruco.enabled = TRUE, !.apriltag.enabled = TRUE,
                        !.text.position = pos,
                        !.id_assignment.auto_assign_numeric_ids = auto] :
        pos \in {"bottom", "none"}, auto \in BOOLEAN}

\* output paths, the overwrite option and the files found on disk
OutputFiles == {Path("output", ".pdf"), Path("labels", ""),
                Path("labels", ".txt"), Path("labels", ".PDF")}
DiskFiles == {Path("ids", ".csv"), Path("output", ".pdf"), Path("labels", ""),
              Path("labels", ".pdf"), Path("labels", ".PDF")}
FileConfigs ==
    {[BaseConfig EXCEPT !.output.file = f, !.output.overwrite = o] :
        f \in OutputFiles, o \in BOOLEAN}

\* what a run starts from: the merged configuration and the files on disk
Startups ==
    {[raw |-> c, existed |-> {Path("ids", ".csv")}] :
        c \in RawConfigs \cup MarginConfigs \cup SectionConfigs}
      \cup
    {[raw |-> c, existed |-> d] : c \in FileConfigs, d \in SUBSET DiskFiles}

Exit1(msg) == [outcome |-> "exit1", error |-> msg, config |-> None]
Raise(exc) == [outcome |-> "raise", error |-> exc, config |-> None]
Accept(c) == [outcome |-> "ok", error |-> "", config |-> c]

\* the dimensions branch counting a partly fitting label as fitting
ValidateDimensionsRoundUp(c, usable_width, usable_height) ==
    LET layout == c.layout
        label_w == layout.label_width_mm
        label_h == layout.label_height_mm
        gap_h == layout.horizontal_gap_mm
        gap_v == layout.vertical_gap_mm
    IN  IF QIsZero(QAdd(label_w, gap_h)) \/ QIsZero(QAdd(label_h, gap_v))
        THEN Raise("ZeroDivisionError")
        ELSE
          LET labels_per_row ==
                  PyInt(QDiv(QAdd(usable_width, gap_h), QAdd(label_w, gap_h))) + 1
              labels_per_column ==
                  PyInt(QDiv(QAdd(usable_height, gap_v), QAdd(label_h, gap_v))) + 1
          IN  IF labels_per_row < 1 \/ labels_per_column < 1
              THEN Exit1("NoFit")
              ELSE Accept([c EXCEPT
                       !.layout.labels_per_row = Q(labels_per_row),
                       !.layout.labels_per_column = Q(labels_per_column)])

\* Config._validate, dimensions branch (has_dimensions)
ValidateDimensions(c, usable_width, usable_height) ==
    LET layout == c.layout
        label_w == layout.label_width_mm
        label_h == layout.label_height_mm
        gap_h == layout.horizontal_gap_mm
        gap_v == layout.vertical_gap_mm
    IN  IF QIsZero(QAdd(label_w, gap_h)) \/ QIsZero(QAdd(label_h, gap_v))
        THEN Raise("ZeroDivisionError")
        ELSE
          LET labels_per_row ==
                  PyInt(QDiv(QAdd(usable_width, gap_h), QAdd(label_w, gap_h)))
              labels_per_column ==
                  PyInt(QDiv(QAdd(usable_height, gap_v), QAdd(label_h, gap_v)))
          IN  IF labels_per_row < 1 \/ labels_per_column < 1
              THEN Exit1("NoFit")
              ELSE Accept([c EXCEPT
                       !.layout.labels_per_row = Q(labels_per_row),
                       !.layout.labels_per_column = Q(labels_per_column)])

\* Config._validate, grid branch (has_grid and not has_dimensions)
ValidateGrid(c, usable_width, usable_height) ==
    LET layout == c.layout
        labels_per_row == layout.labels_per_row
        labels_per_column == layout.labels_per_column
        gap_h == layout.horizontal_gap_mm
        gap_v == layout.vertical_gap_mm
    IN  IF QIsZero(labels_per_row) \/ QIsZero(labels_per_column)
        THEN Raise("ZeroDivisionError")
        ELSE
          LET label_w == QDiv(QSub(usable_width,
                                   QMul(QSub(labels_per_row, Q(1)), gap_h)),
                              labels_per_row)
              label_h == QDiv(QSub(usable_height,
                                   QMul(QSub(labels_per_column, Q(1)), gap_v)),
                              labels_per_column)
          IN  IF QLe(label_w, Q(0)) \/ QLe(label_h, Q(0))
              THEN Exit1("DegenerateCell")
              ELSE Accept([c EXCEPT
                       !.layout.label_width_mm = label_w,
                       !.layout.label_height_mm = label_h])

\* _validate with the grid counts taking precedence over the label dimensions
ValidateGridFirst(c) ==
    LET margin_mm == c.output.margin_mm
        usable_width == QSub(Q(A4_WIDTH_MM), QMul(Q(2), margin_mm))
        usable_height == QSub(Q(A4_HEIGHT_MM), QMul(Q(2), margin_mm))
        layout == c.layout
        has_dimensions == layout.label_width_mm # None
                          /\ layout.label_height_mm # None
        has_grid == layout.labels_per_row # None
                    /\ layout.labels_per_column # None
    IN  IF QLt(margin_mm, Q(0)) THEN Exit1("NegativeMargin")
        ELSE IF QLt(usable_width, Q(20)) \/ QLt(usable_height, Q(20))
        THEN Exit1("MarginsTooLarge")
        ELSE IF has_grid
        THEN ValidateGrid(c, usable_width, usable_height)
        ELSE IF has_dimensions
        THEN ValidateDimensions(c, usable_width, usable_height)
        ELSE Exit1("NoGridSpec")

\* _validate content with 10 mm of usable width and height
ValidateNarrowUsable(c) ==
    LET margin_mm == c.output.margin_mm
        usable_width == QSub(Q(A4_WIDTH_MM), QMul(Q(2), margin_mm))
        usable_height == QSub(Q(A4_HEIGHT_MM), QMul(Q(2), margin_mm))
        layout == c.layout
        has_dimensions == layout.label_width_mm # None
                          /\ layout.label_height_mm # None
        has_grid == layout.labels_per_row # None
                    /\ layout.labels_per_column # None
    IN  IF QLt(margin_mm, Q(0)) THEN Exit1("NegativeMargin")
        ELSE IF QLt(usable_width, Q(10)) \/ QLt(usable_height, Q(10))
        THEN Exit1("MarginsTooLarge")
        ELSE IF has_dimensions
        THEN ValidateDimensions(c, usable_width, usable_height)
        ELSE IF has_grid
        THEN ValidateGrid(c, usable_width, usable_height)
        ELSE Exit1("NoGridSpec")

\* Config._validate: margins, then label dimensions versus grid
Validate(c) ==
    LET margin_mm == c.output.margin_mm
        usable_width == QSub(Q(A4_WIDTH_MM), QMul(Q(2), margin_mm))
        usable_height == QSub(Q(A4_HEIGHT_MM), QMul(Q(2), margin_mm))
        layout == c.layout
        has_dimensions == layout.label_width_mm # None
                          /\ layout.label_height_mm # None
        has_grid == layout.labels_per_row # None
                    /\ layout.labels_per_column # None
    IN  IF QLt(margin_mm, Q(0)) THEN Exit1("NegativeMargin")
        ELSE IF QLt(usable_width, Q(20)) \/ QLt(usable_height, Q(20))
        THEN Exit1("MarginsTooLarge")
        ELSE IF has_dimensions
        THEN ValidateDimensions(c, usable_width, usable_height)
        ELSE IF has_grid
        THEN ValidateGrid(c, usable_width, usable_height)
        ELSE Exit1("NoGridSpec")

\* str.lower() on the suffixes that occur
Lower(suffix) == IF suffix = ".PDF" THEN ".pdf" ELSE suffix

\* Path.with_suffix
WithSuffix(path, suffix) == [path EXCEPT !.suffix = suffix]

\* Config._validate, the file paths: r is what the earlier checks returned
ValidatePaths(r, existed) ==
    IF r.outcome # "ok" THEN r
    ELSE LET c == r.config
             output_path == c.output.file
         IN  IF c.input.csv \notin existed THEN Exit1("CsvNotFound")
             ELSE IF output_path \in existed /\ ~c.output.overwrite
             THEN Exit1("OutputExists")
             ELSE IF Lower(output_path.suffix) # ".pdf"
             THEN Accept([c EXCEPT !.output.file = WithSuffix(output_path, ".pdf")])
             ELSE r

\* Config._validate: the warning written before the dimensions branch is taken
ValidateWarnings(c) ==
    LET margin_mm == c.output.margin_mm
        usable_width == QSub(Q(A4_WIDTH_MM), QMul(Q(2), margin_mm))
        usable_height == QSub(Q(A4_HEIGHT_MM), QMul(Q(2), margin_mm))
        layout == c.layout
        has_dimensions == layout.label_width_mm # None
                          /\ layout.label_height_mm # None
        has_grid == layout.labels_per_row # None
                    /\ layout.labels_per_column # None
    IN  IF QLt(margin_mm, Q(0)) THEN {}
        ELSE IF QLt(usable_width, Q(20)) \/ QLt(usable_height, Q(20)) THEN {}
        ELSE IF has_dimensions /\ has_grid THEN {"DimensionsTakePrecedence"}
        ELSE {}

-----------------------------------------------------------------------------
(* LayoutEngine (src/layout_engine.py).                                    *)

\* 1 point = 0.352778 mm
PT_TO_MM == <<176389, 500000>>

\* the physical sizes the generators report for a rendered barcode / marker
BarcodeWidths == {Q(40), <<127, 5>>}
MarkerFootprints == {Q(40), Q(24)}

\* a Python local that no executed statement has assigned
Unbound == <<>>

\* config.get(section, {}).get('enabled', False)
SectionEnabled(c, section) ==
    IF section \in DOMAIN c THEN c[section].enabled ELSE FALSE

\* LayoutEngine.__init__
LayoutEngineInit(c) ==
    [config |-> c,
     is_marker_mode |-> SectionEnabled(c, "aruco") \/ SectionEnabled(c, "apriltag"),
     usable_width_mm |-> QSub(Q(A4_WIDTH_MM), QMul(Q(2), c.output.margin_mm)),
     usable_height_mm |-> QSub(Q(A4_HEIGHT_MM), QMul(Q(2), c.output.margin_mm)),
     label_width_mm |-> c.layout.label_width_mm,
     label_height_mm |-> c.layout.label_height_mm,
     horizontal_gap_mm |-> c.layout.horizontal_gap_mm,
     vertical_gap_mm |-> c.layout.vertical_gap_mm,
     labels_per_row |-> PyInt(c.layout.labels_per_row),
     labels_per_column |-> PyInt(c.layout.labels_per_column),
     labels_per_page |-> PyInt(c.layout.labels_per_row)
                         * PyInt(c.layout.labels_per_column)]

\* get_label_position with the row computed from the column count
GetLabelPositionByColumn(e, i) ==
    LET label_index_on_page == i % e.labels_per_page
        row == label_index_on_page \div e.labels_per_column
        column == label_index_on_page % e.labels_per_column
        margin_mm == e.config.output.margin_mm
    IN  [raised |-> "",
         row |-> row,
         column |-> column,
         x_mm |-> QAdd(margin_mm,
                       QMul(Q(column), QAdd(e.label_width_mm, e.horizontal_gap_mm))),
         y_mm |-> QAdd(margin_mm,
                       QMul(Q(row), QAdd(e.label_height_mm, e.vertical_gap_mm)))]

\* get_label_position with the index not reduced to the page
GetLabelPositionUnwrapped(e, i) ==
    LET label_index_on_page == i
        row == label_index_on_page \div e.labels_per_row
        column == label_index_on_page % e.labels_per_row
        margin_mm == e.config.output.margin_mm
    IN  [raised |-> "",
         row |-> row,
         column |-> column,
         x_mm |-> QAdd(margin_mm,
                       QMul(Q(column), QAdd(e.label_width_mm, e.horizontal_gap_mm))),
         y_mm |-> QAdd(margin_mm,
                       QMul(Q(row), QAdd(e.label_height_mm, e.vertical_gap_mm)))]

\* LayoutEngine.get_label_position
GetLabelPosition(e, i) ==
    LET label_index_on_page == i % e.labels_per_page
        row == label_index_on_page \div e.labels_per_row
        column == label_index_on_page % e.labels_per_row
        margin_mm == e.config.output.margin_mm
    IN  [raised |-> "",
         row |-> row,
         column |-> column,
         x_mm |-> QAdd(margin_mm,
                       QMul(Q(column), QAdd(e.label_width_mm, e.horizontal_gap_mm))),
         y_mm |-> QAdd(margin_mm,
                       QMul(Q(row), QAdd(e.label_height_mm, e.vertical_gap_mm)))]

\* get_page_number counting a page per grid row
GetPageNumberByRow(e, i) == i \div e.labels_per_row

\* LayoutEngine.get_page_number
GetPageNumber(e, i) == i \div e.labels_per_page

\* the horizontal branch with the code pair started at the left edge of the
\* cell instead of centred as a block
ContentLocalsHorizontalFlushLeft(e, label_pos, barcode_width_mm) ==
    LET qr_size_mm == e.config.qr.size_mm
        barcode_height_mm == e.config.barcode.height_mm
        code_spacing_mm == e.config.layout.code_spacing_mm
        text_pos == e.config.text.position
        text_margin_mm == e.config.text.margin_mm
        font_size_mm == QMul(e.config.text.font_size, PT_TO_MM)
        total_width == QAdd(QAdd(qr_size_mm, code_spacing_mm), barcode_width_mm)
        start_x == label_pos.x_mm
        qr_x_mm == start_x
        qr_y_mm ==
            IF text_pos = "bottom"
            THEN QAdd(label_pos.y_mm,
                      QHalf(QSub(QSub(QSub(e.label_height_mm, qr_size_mm),
                                      font_size_mm), text_margin_mm)))
            ELSE QAdd(label_pos.y_mm, QHalf(QSub(e.label_height_mm, qr_size_mm)))
        barcode_x_mm == QAdd(QAdd(qr_x_mm, qr_size_mm), code_spacing_mm)
        barcode_y_mm == QAdd(label_pos.y_mm,
                             QHalf(QSub(e.label_height_mm, barcode_height_mm)))
        centred == [qr_x_mm |-> qr_x_mm, qr_y_mm |-> qr_y_mm,
                    barcode_x_mm |-> barcode_x_mm, barcode_y_mm |-> barcode_y_mm,
                    qr_text_x_mm |-> QAdd(qr_x_mm, QHalf(qr_size_mm)),
                    barcode_text_x_mm |-> QAdd(barcode_x_mm, QHalf(barcode_width_mm)),
                    qr_text_y_mm |-> Unbound,
                    barcode_text_y_mm |-> Unbound,
                    text_y_mm |-> Unbound]
    IN  IF text_pos = "bottom"
        THEN [centred EXCEPT
                !.text_y_mm = QSub(QSub(QAdd(label_pos.y_mm, e.label_height_mm),
                                        font_size_mm), text_margin_mm)]
        ELSE IF text_pos = "top"
        THEN [centred EXCEPT !.text_y_mm = QAdd(label_pos.y_mm, text_margin_mm)]
        ELSE [centred EXCEPT
                !.qr_text_x_mm = Q(0), !.qr_text_y_mm = Q(0),
                !.barcode_text_x_mm = Q(0), !.barcode_text_y_mm = Q(0),
                !.text_y_mm = Q(0)]

\* the horizontal branch with the QR code centred on the full cell height even
\* when a caption row is reserved at the bottom
ContentLocalsHorizontalCaptionBlind(e, label_pos, barcode_width_mm) ==
    LET qr_size_mm == e.config.qr.size_mm
        barcode_height_mm == e.config.barcode.height_mm
        code_spacing_mm == e.config.layout.code_spacing_mm
        text_pos == e.config.text.position
        text_margin_mm == e.config.text.margin_mm
        font_size_mm == QMul(e.config.text.font_size, PT_TO_MM)
        total_width == QAdd(QAdd(qr_size_mm, code_spacing_mm), barcode_width_mm)
        start_x == QAdd(label_pos.x_mm, QHalf(QSub(e.label_width_mm, total_width)))
        qr_x_mm == start_x
        qr_y_mm ==
            QAdd(label_pos.y_mm, QHalf(QSub(e.label_height_mm, qr_size_mm)))
        barcode_x_mm == QAdd(QAdd(qr_x_mm, qr_size_mm), code_spacing_mm)
        barcode_y_mm == QAdd(label_pos.y_mm,
                             QHalf(QSub(e.label_height_mm, barcode_height_mm)))
        centred == [qr_x_mm |-> qr_x_mm, qr_y_mm |-> qr_y_mm,
                    barcode_x_mm |-> barcode_x_mm, barcode_y_mm |-> barcode_y_mm,
                    qr_text_x_mm |-> QAdd(qr_x_mm, QHalf(qr_size_mm)),
                    barcode_text_x_mm |-> QAdd(barcode_x_mm, QHalf(barcode_width_mm)),
                    qr_text_y_mm |-> Unbound,
                    barcode_text_y_mm |-> Unbound,
                    text_y_mm |-> Unbound]
    IN  IF text_pos = "bottom"
        THEN [centred EXCEPT
                !.text_y_mm = QSub(QSub(QAdd(label_pos.y_mm, e.label_height_mm),
                                        font_size_mm), text_margin_mm)]
        ELSE IF text_pos = "top"
        THEN [centred EXCEPT !.text_y_mm = QAdd(label_pos.y_mm, text_margin_mm)]
        ELSE [centred EXCEPT
                !.qr_text_x_mm = Q(0), !.qr_text_y_mm = Q(0),
                !.barcode_text_x_mm = Q(0), !.barcode_text_y_mm = Q(0),
                !.text_y_mm = Q(0)]

\* get_content_position, the locals the horizontal branch leaves behind
ContentLocalsHorizontal(e, label_pos, barcode_width_mm) ==
    LET qr_size_mm == e.config.qr.size_mm
        barcode_height_mm == e.config.barcode.height_mm
        code_spacing_mm == e.config.layout.code_spacing_mm
        text_pos == e.config.text.position
        text_margin_mm == e.config.text.margin_mm
        font_size_mm == QMul(e.config.text.font_size, PT_TO_MM)
        total_width == QAdd(QAdd(qr_size_mm, code_spacing_mm), barcode_width_mm)
        start_x == QAdd(label_pos.x_mm, QHalf(QSub(e.label_width_mm, total_width)))
        qr_x_mm == start_x
        qr_y_mm ==
            IF text_pos = "bottom"
            THEN QAdd(label_pos.y_mm,
                      QHalf(QSub(QSub(QSub(e.label_height_mm, qr_size_mm),
                                      font_size_mm), text_margin_mm)))
            ELSE QAdd(label_pos.y_mm, QHalf(QSub(e.label_height_mm, qr_size_mm)))
        barcode_x_mm == QAdd(QAdd(qr_x_mm, qr_size_mm), code_spacing_mm)
        barcode_y_mm == QAdd(label_pos.y_mm,
                             QHalf(QSub(e.label_height_mm, barcode_height_mm)))
        centred == [qr_x_mm |-> qr_x_mm, qr_y_mm |-> qr_y_mm,
                    barcode_x_mm |-> barcode_x_mm, barcode_y_mm |-> barcode_y_mm,
                    qr_text_x_mm |-> QAdd(qr_x_mm, QHalf(qr_size_mm)),
                    barcode_text_x_mm |-> QAdd(barcode_x_mm, QHalf(barcode_width_mm)),
                    qr_text_y_mm |-> Unbound,
                    barcode_text_y_mm |-> Unbound,
                    text_y_mm |-> Unbound]
    IN  IF text_pos = "bottom"
        THEN [centred EXCEPT
                !.text_y_mm = QSub(QSub(QAdd(label_pos.y_mm, e.label_height_mm),
                                        font_size_mm), text_margin_mm)]
        ELSE IF text_pos = "top"
        THEN [centred EXCEPT !.text_y_mm = QAdd(label_pos.y_mm, text_margin_mm)]
        ELSE [centred EXCEPT
                !.qr_text_x_mm = Q(0), !.qr_text_y_mm = Q(0),
                !.barcode_text_x_mm = Q(0), !.barcode_text_y_mm = Q(0),
                !.text_y_mm = Q(0)]

\* the vertical branch with the caption-free pair placed as if there were no
\* spacing between the QR code and the barcode
ContentLocalsVerticalSpacingBlind(e, label_pos, barcode_width_mm) ==
    LET qr_size_mm == e.config.qr.size_mm
        barcode_height_mm == e.config.barcode.height_mm
        code_spacing_mm == e.config.layout.code_spacing_mm
        text_pos == e.config.text.position
        text_margin_mm == e.config.text.margin_mm
        font_size_mm == QMul(e.config.text.font_size, PT_TO_MM)
        qr_x_mm == QAdd(label_pos.x_mm, QHalf(QSub(e.label_width_mm, qr_size_mm)))
        space_needed_bottom == QAdd(QAdd(barcode_height_mm, font_size_mm), text_margin_mm)
        available_for_qr == QSub(QSub(e.label_height_mm, space_needed_bottom),
                                 code_spacing_mm)
        available_height == QSub(e.label_height_mm, code_spacing_mm)
        qr_y_mm ==
            IF text_pos = "top"
            THEN QAdd(QAdd(QAdd(label_pos.y_mm, font_size_mm), text_margin_mm),
                      text_margin_mm)
            ELSE IF text_pos = "bottom"
            THEN QAdd(label_pos.y_mm, QHalf(QSub(available_for_qr, qr_size_mm)))
            ELSE QAdd(label_pos.y_mm,
                      QHalf(QSub(QSub(e.label_height_mm, qr_size_mm), barcode_height_mm)))
        qr_text_y_mm ==
            IF text_pos = "top" THEN QAdd(label_pos.y_mm, text_margin_mm)
            ELSE IF text_pos = "bottom"
            THEN QAdd(QAdd(qr_y_mm, qr_size_mm), text_margin_mm)
            ELSE Q(0)
        barcode_x_mm == QAdd(label_pos.x_mm,
                             QHalf(QSub(e.label_width_mm, barcode_width_mm)))
        barcode_y_mm ==
            IF text_pos = "bottom"
            THEN QSub(QSub(QSub(QAdd(label_pos.y_mm, e.label_height_mm),
                                barcode_height_mm), font_size_mm), text_margin_mm)
            ELSE QAdd(QAdd(qr_y_mm, qr_size_mm), code_spacing_mm)
        barcode_text_y_mm ==
            IF text_pos = "bottom"
            THEN QSub(QSub(QAdd(label_pos.y_mm, e.label_height_mm),
                           font_size_mm), text_margin_mm)
            ELSE IF text_pos = "top"
            THEN QAdd(QAdd(barcode_y_mm, barcode_height_mm), text_margin_mm)
            ELSE Q(0)
    IN  [qr_x_mm |-> qr_x_mm, qr_y_mm |-> qr_y_mm,
         barcode_x_mm |-> barcode_x_mm, barcode_y_mm |-> barcode_y_mm,
         qr_text_x_mm |-> QAdd(qr_x_mm, QHalf(qr_size_mm)),
         barcode_text_x_mm |-> QAdd(barcode_x_mm, QHalf(barcode_width_mm)),
         qr_text_y_mm |-> qr_text_y_mm,
         barcode_text_y_mm |-> barcode_text_y_mm,
         text_y_mm |-> Unbound]

\* get_content_position, the locals the vertical branch leaves behind
ContentLocalsVertical(e, label_pos, barcode_width_mm) ==
    LET qr_size_mm == e.config.qr.size_mm
        barcode_height_mm == e.config.barcode.height_mm
        code_spacing_mm == e.config.layout.code_spacing_mm
        text_pos == e.config.text.position
        text_margin_mm == e.config.text.margin_mm
        font_size_mm == QMul(e.config.text.font_size, PT_TO_MM)
        qr_x_mm == QAdd(label_pos.x_mm, QHalf(QSub(e.label_width_mm, qr_size_mm)))
        space_needed_bottom == QAdd(QAdd(barcode_height_mm, font_size_mm), text_margin_mm)
        available_for_qr == QSub(QSub(e.label_height_mm, space_needed_bottom),
                                 code_spacing_mm)
        available_height == QSub(e.label_height_mm, code_spacing_mm)
        qr_y_mm ==
            IF text_pos = "top"
            THEN QAdd(QAdd(QAdd(label_pos.y_mm, font_size_mm), text_margin_mm),
                      text_margin_mm)
            ELSE IF text_pos = "bottom"
            THEN QAdd(label_pos.y_mm, QHalf(QSub(available_for_qr, qr_size_mm)))
            ELSE QAdd(label_pos.y_mm,
                      QHalf(QSub(QSub(available_height, qr_size_mm), barcode_height_mm)))
        qr_text_y_mm ==
            IF text_pos = "top" THEN QAdd(label_pos.y_mm, text_margin_mm)
            ELSE IF text_pos = "bottom"
            THEN QAdd(QAdd(qr_y_mm, qr_size_mm), text_margin_mm)
            ELSE Q(0)
        barcode_x_mm == QAdd(label_pos.x_mm,
                             QHalf(QSub(e.label_width_mm, barcode_width_mm)))
        barcode_y_mm ==
            IF text_pos = "bottom"
            THEN QSub(QSub(QSub(QAdd(label_pos.y_mm, e.label_height_mm),
                                barcode_height_mm), font_size_mm), text_margin_mm)
            ELSE QAdd(QAdd(qr_y_mm, qr_size_mm), code_spacing_mm)
        barcode_text_y_mm ==
            IF text_pos = "bottom"
            THEN QSub(QSub(QAdd(label_pos.y_mm, e.label_height_mm),
                           font_size_mm), text_margin_mm)
            ELSE IF text_pos = "top"
            THEN QAdd(QAdd(barcode_y_mm, barcode_height_mm), text_margin_mm)
            ELSE Q(0)
    IN  [qr_x_mm |-> qr_x_mm, qr_y_mm |-> qr_y_mm,
         barcode_x_mm |-> barcode_x_mm, barcode_y_mm |-> barcode_y_mm,
         qr_text_x_mm |-> QAdd(qr_x_mm, QHalf(qr_size_mm)),
         barcode_text_x_mm |-> QAdd(barcode_x_mm, QHalf(barcode_width_mm)),
         qr_text_y_mm |-> qr_text_y_mm,
         barcode_text_y_mm |-> barcode_text_y_mm,
         text_y_mm |-> Unbound]

\* a return statement that hands back the caption locals without the
\* "if text_pos != 'none' else 0" guards
ContentReturnUnguarded(locals, text_pos, barcode_width_mm) ==
    IF text_pos # "none" /\ locals.text_y_mm = Unbound
    THEN [raised |-> "UnboundLocalError"]
    ELSE [raised |-> "",
          qr_x_mm |-> locals.qr_x_mm,
          qr_y_mm |-> locals.qr_y_mm,
          barcode_x_mm |-> locals.barcode_x_mm,
          barcode_y_mm |-> locals.barcode_y_mm,
          barcode_width_mm |-> barcode_width_mm,
          qr_text_x_mm |-> locals.qr_text_x_mm,
          qr_text_y_mm |-> locals.qr_text_y_mm,
          barcode_text_x_mm |-> locals.barcode_text_x_mm,
          barcode_text_y_mm |-> locals.barcode_text_y_mm]

\* a return statement that hands back the per-element caption Y locals, which
\* the horizontal branch never assigns
ContentReturnPerElementY(locals, text_pos, barcode_width_mm) ==
    IF text_pos # "none" /\ (locals.qr_text_y_mm = Unbound
                             \/ locals.barcode_text_y_mm = Unbound)
    THEN [raised |-> "UnboundLocalError"]
    ELSE [raised |-> "",
          qr_x_mm |-> locals.qr_x_mm,
          qr_y_mm |-> locals.qr_y_mm,
          barcode_x_mm |-> locals.barcode_x_mm,
          barcode_y_mm |-> locals.barcode_y_mm,
          barcode_width_mm |-> barcode_width_mm,
          qr_text_x_mm |-> IF text_pos # "none" THEN locals.qr_text_x_mm ELSE Q(0),
          qr_text_y_mm |-> IF text_pos # "none" THEN locals.qr_text_y_mm ELSE Q(0),
          barcode_text_x_mm |-> IF text_pos # "none" THEN locals.barcode_text_x_mm ELSE Q(0),
          barcode_text_y_mm |-> IF text_pos # "none" THEN locals.barcode_text_y_mm ELSE Q(0)]

\* get_content_position, the return statement: with captions enabled it
\* reads the local text_y_mm for both caption Y fields
ContentReturn(locals, text_pos, barcode_width_mm) ==
    IF text_pos # "none" /\ locals.text_y_mm = Unbound
    THEN [raised |-> "UnboundLocalError"]
    ELSE [raised |-> "",
          qr_x_mm |-> locals.qr_x_mm,
          qr_y_mm |-> locals.qr_y_mm,
          barcode_x_mm |-> locals.barcode_x_mm,
          barcode_y_mm |-> locals.barcode_y_mm,
          barcode_width_mm |-> barcode_width_mm,
          qr_text_x_mm |-> IF text_pos # "none" THEN locals.qr_text_x_mm ELSE Q(0),
          qr_text_y_mm |-> IF text_pos # "none" THEN locals.text_y_mm ELSE Q(0),
          barcode_text_x_mm |-> IF text_pos # "none" THEN locals.barcode_text_x_mm ELSE Q(0),
          barcode_text_y_mm |-> IF text_pos # "none" THEN locals.text_y_mm ELSE Q(0)]

\* LayoutEngine.get_content_position
GetContentPosition(e, label_pos, barcode_width_mm) ==
    ContentReturn(
        IF e.config.layout.code_arrangement = "horizontal"
        THEN ContentLocalsHorizontal(e, label_pos, barcode_width_mm)
        ELSE ContentLocalsVertical(e, label_pos, barcode_width_mm),
        e.config.text.position, barcode_width_mm)

\* get_marker_position with the marker of a top-captioned cell centred in the
\* band that starts at the cell top
GetMarkerPositionUnshifted(e, label_pos, marker_footprint_mm) ==
    LET text_pos == e.config.text.position
        text_align == e.config.text.alignment
        text_margin_mm == e.config.text.margin_mm
        font_size_mm == QMul(e.config.text.font_size, PT_TO_MM)
        marker_x_mm == QAdd(label_pos.x_mm,
                            QHalf(QSub(e.label_width_mm, marker_footprint_mm)))
        available_height == QSub(QSub(QSub(e.label_height_mm, font_size_mm),
                                      text_margin_mm), text_margin_mm)
        text_y_mm ==
            IF text_pos = "bottom"
            THEN QSub(QSub(QAdd(label_pos.y_mm, e.label_height_mm), font_size_mm),
                      text_margin_mm)
            ELSE IF text_pos = "top"
            THEN QAdd(QAdd(label_pos.y_mm, text_margin_mm), font_size_mm)
            ELSE Q(0)
        marker_y_mm ==
            IF text_pos = "bottom"
            THEN QAdd(label_pos.y_mm, QHalf(QSub(available_height, marker_footprint_mm)))
            ELSE IF text_pos = "top"
            THEN QAdd(label_pos.y_mm, QHalf(QSub(available_height, marker_footprint_mm)))
            ELSE QAdd(label_pos.y_mm, QHalf(QSub(e.label_height_mm, marker_footprint_mm)))
        text_x_mm ==
            IF text_pos # "none"
            THEN IF text_align = "center"
                 THEN QAdd(label_pos.x_mm, QHalf(e.label_width_mm))
                 ELSE IF text_align = "right"
                 THEN QAdd(label_pos.x_mm, e.label_width_mm)
                 ELSE label_pos.x_mm
            ELSE Q(0)
    IN  [raised |-> "",
         marker_x_mm |-> marker_x_mm,
         marker_y_mm |-> marker_y_mm,
         text_x_mm |-> text_x_mm,
         text_y_mm |-> text_y_mm]

\* LayoutEngine.get_marker_position
GetMarkerPosition(e, label_pos, marker_footprint_mm) ==
    LET text_pos == e.config.text.position
        text_align == e.config.text.alignment
        text_margin_mm == e.config.text.margin_mm
        font_size_mm == QMul(e.config.text.font_size, PT_TO_MM)
        marker_x_mm == QAdd(label_pos.x_mm,
                            QHalf(QSub(e.label_width_mm, marker_footprint_mm)))
        available_height == QSub(QSub(QSub(e.label_height_mm, font_size_mm),
                                      text_margin_mm), text_margin_mm)
        text_y_mm ==
            IF text_pos = "bottom"
            THEN QSub(QSub(QAdd(label_pos.y_mm, e.label_height_mm), font_size_mm),
                      text_margin_mm)
            ELSE IF text_pos = "top"
            THEN QAdd(QAdd(label_pos.y_mm, text_margin_mm), font_size_mm)
            ELSE Q(0)
        marker_y_mm ==
            IF text_pos = "bottom"
            THEN QAdd(label_pos.y_mm, QHalf(QSub(available_height, marker_footprint_mm)))
            ELSE IF text_pos = "top"
            THEN QAdd(QAdd(QAdd(QAdd(label_pos.y_mm, text_margin_mm), font_size_mm),
                           text_margin_mm),
                      QHalf(QSub(available_height, marker_footprint_mm)))
            ELSE QAdd(label_pos.y_mm, QHalf(QSub(e.label_height_mm, marker_footprint_mm)))
        text_x_mm ==
            IF text_pos # "none"
            THEN IF text_align = "center"
                 THEN QAdd(label_pos.x_mm, QHalf(e.label_width_mm))
                 ELSE IF text_align = "right"
                 THEN QAdd(label_pos.x_mm, e.label_width_mm)
                 ELSE label_pos.x_mm
            ELSE Q(0)
    IN  [raised |-> "",
         marker_x_mm |-> marker_x_mm,
         marker_y_mm |-> marker_y_mm,
         text_x_mm |-> text_x_mm,
         text_y_mm |-> text_y_mm]

-----------------------------------------------------------------------------
(* The run: main() (src/main.py) and PDFExporter (src/pdf_exporter.py).    *)

NoResult == [op |-> "none"]

\* what the generator collaborators report for one CSV entry
QREntries == [barcode_valid : BOOLEAN, qr_generated : BOOLEAN,
              barcode_generated : BOOLEAN, barcode_width_mm : BarcodeWidths]
MarkerIds == {None, <<0>>, <<1000>>}
MarkerEntries == [numeric_id : MarkerIds, generated : BOOLEAN]

\* ArUcoGenerator.DICTIONARIES['DICT_4X4_50'] / AprilTagGenerator.FAMILIES['tag16h5']
MaxMarkerId(e) == IF e.aruco_gen THEN 50 ELSE 30

\* ArUcoGenerator.get_footprint_size_mm: pattern 30 mm plus a 5 mm quiet zone on each side
FootprintSizeMm == Q(40)

Init ==
    /\ pc = "config"
    /\ error = ""
    /\ \E s \in Startups :
          /\ raw = s.raw
          /\ fs = [existed |-> s.existed, written |-> {}]
    /\ config = None
    /\ engine = None
    /\ numEntries = 0
    /\ index = 0
    /\ successful = 0
    /\ skipped = 0
    /\ current_page = -1
    /\ canvas = "None"
    /\ pageBreaks = 0
    /\ drawn = <<>>
    /\ result = NoResult
    /\ warnings = {}
    /\ exporter = None
    /\ loader = None
    /\ inputs = None

\* Config.__init__: validate the merged configuration; sys.exit(1) on a
\* reported error, an uncaught exception otherwise
ValidateConfig ==
    /\ pc = "config"
    /\ LET r == ValidatePaths(Validate(raw), fs.existed)
       IN  /\ pc' = IF r.outcome = "ok" THEN "validated"
                    ELSE IF r.outcome = "exit1" THEN "exit1" ELSE "crashed"
           /\ error' = r.error
           /\ config' = r.config
    /\ warnings' = ValidateWarnings(raw)
    /\ UNCHANGED <<raw, engine, numEntries, index, successful, skipped,
                   current_page, canvas, pageBreaks, drawn, result,
                   exporter, fs, loader, inputs>>

\* main(): aruco_enabled, apriltag_enabled and is_marker_mode; Config.get
\* raises KeyError for a section the merged configuration does not have
DetermineMode(c) ==
    IF "aruco" \notin DOMAIN c \/ "apriltag" \notin DOMAIN c
    THEN [raised |-> "KeyError"]
    ELSE [raised |-> "",
          aruco_enabled |-> c.aruco.enabled,
          apriltag_enabled |-> c.apriltag.enabled,
          is_marker_mode |-> c.aruco.enabled \/ c.apriltag.enabled]

\* main(): the generators constructed for the mode (TRUE: constructed)
MakeGenerators(mode) ==
    [qr_gen |-> ~mode.is_marker_mode,
     barcode_gen |-> ~mode.is_marker_mode,
     aruco_gen |-> mode.is_marker_mode /\ mode.aruco_enabled,
     apriltag_gen |-> mode.is_marker_mode /\ ~mode.aruco_enabled
                      /\ mode.apriltag_enabled]

\* PDFExporter.__init__
PDFExporterInit(c, gens) ==
    [qr_gen |-> gens.qr_gen,
     barcode_gen |-> gens.barcode_gen,
     aruco_gen |-> gens.aruco_gen,
     apriltag_gen |-> gens.apriltag_gen,
     output_path |-> c.output.file,
     is_marker_mode |-> gens.aruco_gen \/ gens.apriltag_gen]

\* main(): load the entries, build the LayoutEngine and the PDFExporter
Setup ==
    /\ pc = "validated"
    /\ \E n \in 1..MaxEntries :
          LET mode == DetermineMode(config)
              raised == IF mode.raised # "" THEN mode.raised
                        ELSE IF mode.is_marker_mode
                                /\ "id_assignment" \notin DOMAIN config
                        THEN "KeyError" ELSE ""
          IN  IF raised # ""
              THEN /\ pc' = "crashed"
                   /\ error' = raised
                   /\ UNCHANGED <<engine, exporter, numEntries>>
              ELSE /\ pc' = "export"
                   /\ numEntries' = n
                   /\ engine' = LayoutEngineInit(config)
                   /\ exporter' = PDFExporterInit(config, MakeGenerators(mode))
                   /\ UNCHANGED error
    /\ index' = 0
    /\ successful' = 0
    /\ skipped' = 0
    /\ current_page' = -1
    /\ canvas' = "None"
    /\ UNCHANGED <<raw, config, pageBreaks, drawn, result, warnings,
                   fs, loader, inputs>>

\* PDFExporter._start_new_page when page_num != current_page
PageAfter(page_num) ==
    IF page_num # current_page THEN current_page + 1 ELSE current_page

BreaksAfter(page_num) ==
    IF page_num # current_page /\ current_page + 1 > 0
    THEN pageBreaks + 1 ELSE pageBreaks

CanvasAfter(page_num) ==
    IF page_num # current_page THEN "open" ELSE canvas

SkipEntry ==
    /\ skipped' = skipped + 1
    /\ index' = index + 1
    /\ UNCHANGED <<pc, error, successful, current_page, canvas, pageBreaks, drawn>>

\* PDFExporter._draw_text: the canvas call made for one caption
DrawText(x_mm, y_mm, alignment) ==
    LET text_align == IF alignment # None THEN alignment[1]
                      ELSE config.text.alignment
    IN  [x_mm |-> x_mm, y_mm |-> y_mm,
         call |-> IF text_align = "center" THEN "drawCentredString"
                  ELSE IF text_align = "right" THEN "drawRightString"
                  ELSE "drawString"]

\* the two captions of a code pair drawn without the alignment override
DrawCodeTextsConfigAligned(content_pos) ==
    IF config.text.position # "none"
    THEN <<DrawText(content_pos.qr_text_x_mm, content_pos.qr_text_y_mm, None),
           DrawText(content_pos.barcode_text_x_mm, content_pos.barcode_text_y_mm,
                    None)>>
    ELSE <<>>

\* the two captions of a code pair, drawn only when captions are enabled
DrawCodeTexts(content_pos) ==
    IF config.text.position # "none"
    THEN <<DrawText(content_pos.qr_text_x_mm, content_pos.qr_text_y_mm,
                    <<"center">>),
           DrawText(content_pos.barcode_text_x_mm, content_pos.barcode_text_y_mm,
                    <<"center">>)>>
    ELSE <<>>

\* the caption of a marker always drawn centre-anchored
DrawMarkerTextCentred(marker_pos) ==
    IF config.text.position # "none"
    THEN <<DrawText(marker_pos.text_x_mm, marker_pos.text_y_mm, <<"center">>)>>
    ELSE <<>>

\* the caption of a marker, drawn only when captions are enabled
DrawMarkerText(marker_pos) ==
    IF config.text.position # "none"
    THEN <<DrawText(marker_pos.text_x_mm, marker_pos.text_y_mm,
                    <<config.text.alignment>>)>>
    ELSE <<>>

\* get the label position, start a page if needed, place and draw the content
DrawEntry(label_pos, position, texts, ids) ==
    LET page_num == GetPageNumber(engine, index)
    IN  /\ current_page' = PageAfter(page_num)
        /\ pageBreaks' = BreaksAfter(page_num)
        /\ canvas' = CanvasAfter(page_num)
        /\ IF position.raised # ""
           THEN /\ pc' = "export_failed"
                /\ error' = position.raised
                /\ UNCHANGED <<index, successful, skipped, drawn>>
           ELSE /\ drawn' = Append(drawn, [index |-> index,
                                           page |-> PageAfter(page_num),
                                           label |-> label_pos,
                                           position |-> position,
                                           texts |-> texts,
                                           entry_id |-> ids.entry_id,
                                           numeric_id |-> ids.numeric_id])
                /\ successful' = successful + 1
                /\ index' = index + 1
                /\ UNCHANGED <<pc, error, skipped>>

\* one iteration of the loop of PDFExporter._export_qr_barcode
ExportQRBarcodeEntry ==
    /\ pc = "export"
    /\ ~exporter.is_marker_mode
    /\ index < numEntries
    /\ \E entry \in QREntries :
          IF ~entry.barcode_valid \/ ~entry.qr_generated \/ ~entry.barcode_generated
          THEN SkipEntry
          ELSE LET label_pos == GetLabelPosition(engine, index)
                   content_pos == GetContentPosition(engine, label_pos,
                                      entry.barcode_width_mm)
               IN  DrawEntry(label_pos, content_pos,
                             IF content_pos.raised = ""
                             THEN DrawCodeTexts(content_pos) ELSE <<>>,
                             [entry_id |-> None, numeric_id |-> None])
    /\ UNCHANGED <<raw, config, engine, numEntries, result, warnings,
                   exporter, fs, loader, inputs>>

\* variant: every entry without an id is given start_index itself
AssignNumericIdFromStart(entry_id, i, id_assignment) ==
    IF entry_id = None /\ id_assignment.auto_assign_numeric_ids
    THEN <<id_assignment.start_index>>
    ELSE entry_id

\* the numeric id an entry's marker is generated from: its own, or
\* start_index + index when it has none and ids are auto-assigned, else None
AssignNumericId(entry_id, i, id_assignment) ==
    IF entry_id = None /\ id_assignment.auto_assign_numeric_ids
    THEN <<id_assignment.start_index + i>>
    ELSE entry_id

\* one iteration of the loop of PDFExporter._export_markers
ExportMarkerEntry ==
    /\ pc = "export"
    /\ exporter.is_marker_mode
    /\ index < numEntries
    /\ \E entry \in MarkerEntries :
          LET numeric_id == AssignNumericId(entry.numeric_id, index,
                                            config.id_assignment)
              is_valid == numeric_id # None
                          /\ numeric_id[1] >= 0
                          /\ numeric_id[1] < MaxMarkerId(exporter)
          IN  IF numeric_id = None \/ ~is_valid \/ ~entry.generated
              THEN SkipEntry
              ELSE LET label_pos == GetLabelPosition(engine, index)
                       marker_pos == GetMarkerPosition(engine, label_pos,
                                                       FootprintSizeMm)
                   IN  DrawEntry(label_pos, marker_pos,
                                 DrawMarkerText(marker_pos),
                                 [entry_id |-> entry.numeric_id,
                                  numeric_id |-> numeric_id])
    /\ UNCHANGED <<raw, config, engine, numEntries, result, warnings,
                   exporter, fs, loader, inputs>>

\* the end of export(): save the canvas if one was opened, return the counts
FinishExport ==
    /\ pc = "export"
    /\ index = numEntries
    /\ canvas' = IF canvas = "open" THEN "saved" ELSE canvas
    /\ fs' = IF canvas = "open"
             THEN [fs EXCEPT !.written = @ \cup {exporter.output_path}]
             ELSE fs
    /\ pc' = "done"
    /\ UNCHANGED <<error, raw, config, engine, numEntries, index, successful,
                   skipped, current_page, pageBreaks, drawn, result, warnings,
                   exporter, loader, inputs>>

Next ==
    \/ ValidateConfig
    \/ Setup
    \/ ExportQRBarcodeEntry
    \/ ExportMarkerEntry
    \/ FinishExport

Spec == Init /\ [][Next]_vars

-----------------------------------------------------------------------------
(* The position functions called directly on a constructed LayoutEngine.   *)

NewLayoutEngine ==
    /\ pc = "validated"
    /\ engine' = LayoutEngineInit(config)
    /\ pc' = "ready"
    /\ UNCHANGED <<error, raw, config, numEntries, index, successful, skipped,
                   current_page, canvas, pageBreaks, drawn, result, warnings,
                   exporter, fs, loader, inputs>>

\* a get_label_position that keeps a running cell count on the engine
CallGetLabelPositionCounting ==
    /\ pc = "ready"
    /\ \E i \in 0..MaxIndex :
          result' = [op |-> "get_label_position", index |-> i, arg |-> None,
                     value |-> GetLabelPosition(engine, i)]
    /\ engine' = [engine EXCEPT !.labels_per_page = @ + 1]
    /\ pc' = "returned"
    /\ UNCHANGED <<error, raw, config, numEntries, index, successful,
                   skipped, current_page, canvas, pageBreaks, drawn, warnings,
                   exporter, fs, loader, inputs>>

CallGetLabelPosition ==
    /\ pc = "ready"
    /\ \E i \in 0..MaxIndex :
          result' = [op |-> "get_label_position", index |-> i, arg |-> None,
                     value |-> GetLabelPosition(engine, i)]
    /\ pc' = "returned"
    /\ UNCHANGED <<error, raw, config, engine, numEntries, index, successful,
                   skipped, current_page, canvas, pageBreaks, drawn, warnings,
                   exporter, fs, loader, inputs>>

CallGetPageNumber ==
    /\ pc = "ready"
    /\ \E i \in 0..MaxIndex :
          result' = [op |-> "get_page_number", index |-> i, arg |-> None,
                     value |-> GetPageNumber(engine, i)]
    /\ pc' = "returned"
    /\ UNCHANGED <<error, raw, config, engine, numEntries, index, successful,
                   skipped, current_page, canvas, pageBreaks, drawn, warnings,
                   exporter, fs, loader, inputs>>

CallGetContentPosition ==
    /\ pc = "ready"
    /\ \E i \in 0..MaxCell, w \in BarcodeWidths :
          result' = [op |-> "get_content_position", index |-> i, arg |-> w,
                     value |-> GetContentPosition(engine,
                                   GetLabelPosition(engine, i), w)]
    /\ pc' = "returned"
    /\ UNCHANGED <<error, raw, config, engine, numEntries, index, successful,
                   skipped, current_page, canvas, pageBreaks, drawn, warnings,
                   exporter, fs, loader, inputs>>

CallGetMarkerPosition ==
    /\ pc = "ready"
    /\ \E i \in 0..MaxCell, f \in MarkerFootprints :
          result' = [op |-> "get_marker_position", index |-> i, arg |-> f,
                     value |-> GetMarkerPosition(engine,
                                   GetLabelPosition(engine, i), f)]
    /\ pc' = "returned"
    /\ UNCHANGED <<error, raw, config, engine, numEntries, index, successful,
                   skipped, current_page, canvas, pageBreaks, drawn, warnings,
                   exporter, fs, loader, inputs>>

GeomNext ==
    \/ ValidateConfig
    \/ NewLayoutEngine
    \/ CallGetLabelPosition
    \/ CallGetPageNumber
    \/ CallGetContentPosition
    \/ CallGetMarkerPosition

GeomSpec == Init /\ [][GeomNext]_vars

\* the call that has returned, made once more with the same arguments
CallAgain ==
    /\ pc = "returned"
    /\ LET label_pos == GetLabelPosition(engine, result.index)
           value ==
               IF result.op = "get_label_position" THEN label_pos
               ELSE IF result.op = "get_page_number"
               THEN GetPageNumber(engine, result.index)
               ELSE IF result.op = "get_content_position"
               THEN GetContentPosition(engine, label_pos, result.arg)
               ELSE GetMarkerPosition(engine, label_pos, result.arg)
       IN  result' = [result EXCEPT !.value = value]
    /\ UNCHANGED <<pc, error, raw, config, engine, numEntries, index, successful,
                   skipped, current_page, canvas, pageBreaks, drawn, warnings,
                   exporter, fs, loader, inputs>>

\* an export run and the direct calls, with repeated calls, side by side
PureNext ==
    \/ Next
    \/ GeomNext
    \/ CallAgain

PureSpec == Init /\ [][PureNext]_vars

-----------------------------------------------------------------------------
(* DataLoader.load: the rows of the CSV file become DataEntry objects.     *)
(* A string is the sequence of its characters; a cell of a row shorter     *)
(* than the header is None.                                                 *)

MaxRows == 2

Str(chars) == [chars |-> chars]

RECURSIVE LStrip(_)
LStrip(chars) ==
    IF chars # <<>> /\ Head(chars) = " " THEN LStrip(Tail(chars)) ELSE chars

RECURSIVE RStrip(_)
RStrip(chars) ==
    IF chars # <<>> /\ chars[Len(chars)] = " "
    THEN RStrip(SubSeq(chars, 1, Len(chars) - 1)) ELSE chars

\* str.strip()
Strip(s) == Str(RStrip(LStrip(s.chars)))

\* the truth value of an optional string: None and "" are false
Truthy(s) == s # None /\ s.chars # <<>>

RECURSIVE DigitsValue(_)
DigitsValue(chars) ==
    IF chars = <<>> THEN 0
    ELSE 10 * DigitsValue(SubSeq(chars, 1, Len(chars) - 1))
         + (IF chars[Len(chars)] = "7" THEN 7 ELSE 0)

\* int(s) for a stripped string: the value, or None for the ValueError that
\* load() answers with a warning
ParseInt(s) ==
    IF s.chars # <<>> /\ \A k \in DOMAIN s.chars : s.chars[k] \in {"0", "7"}
    THEN <<DigitsValue(s.chars)>> ELSE None

\* the header lines of the CSV files read
Headers == {{"id"}, {"qr_value"}, {"id", "qr_value"},
            {"id", "qr_value", "barcode_value"},
            {"id", "qr_value", "barcode_value", "aruco_id", "apriltag_id"}}

\* the cells a column holds in these files
CellsOf(column) ==
    IF column = "id"
    THEN {None, Str(<<>>), Str(<<" ">>), Str(<<"a">>), Str(<<" ", "a", " ">>)}
    ELSE IF column = "qr_value"
    THEN {None, Str(<<>>), Str(<<" ">>), Str(<<"b">>), Str(<<" ", "b">>)}
    ELSE IF column = "barcode_value"
    THEN {None, Str(<<>>), Str(<<"b", " ">>)}
    ELSE IF column = "aruco_id"
    THEN {Str(<<>>), Str(<<" ", "7">>), Str(<<"a">>)}
    ELSE {Str(<<>>), Str(<<"7", "0">>)}

\* the dictionaries csv.DictReader yields for a header
RowsOf(fieldnames) ==
    IF fieldnames = {"id"}
    THEN {[id |-> a] : a \in CellsOf("id")}
    ELSE IF fieldnames = {"qr_value"}
    THEN {[qr_value |-> b] : b \in CellsOf("qr_value")}
    ELSE IF fieldnames = {"id", "qr_value"}
    THEN {[id |-> a, qr_value |-> b] :
             a \in CellsOf("id"), b \in CellsOf("qr_value")}
    ELSE IF fieldnames = {"id", "qr_value", "barcode_value"}
    THEN {[id |-> a, qr_value |-> b, barcode_value |-> c] :
             a \in CellsOf("id"), b \in CellsOf("qr_value"),
             c \in CellsOf("barcode_value")}
    ELSE {[id |-> a, qr_value |-> b, barcode_value |-> c, aruco_id |-> d,
           apriltag_id |-> e] :
             a \in CellsOf("id"), b \in CellsOf("qr_value"),
             c \in CellsOf("barcode_value"), d \in CellsOf("aruco_id"),
             e \in CellsOf("apriltag_id")}

\* DataEntry.__init__ taking the values as given, with the id only for a
\* missing (None) value
DataEntryInitAbsentOnly(id, qr_value, barcode_value, aruco_id, apriltag_id) ==
    LET self_id == IF Truthy(id) THEN Strip(id) ELSE Str(<<>>)
    IN  [id |-> self_id,
         qr_value |-> IF qr_value # None THEN Strip(qr_value) ELSE self_id,
         barcode_value |-> IF barcode_value # None THEN Strip(barcode_value)
                           ELSE self_id,
         aruco_id |-> aruco_id,
         apriltag_id |-> apriltag_id]

\* DataEntry.__init__
DataEntryInit(id, qr_value, barcode_value, aruco_id, apriltag_id) ==
    LET self_id == IF Truthy(id) THEN Strip(id) ELSE Str(<<>>)
        OrId(s) == IF Truthy(s) THEN s ELSE self_id
    IN  [id |-> self_id,
         qr_value |-> OrId(IF Truthy(qr_value) THEN Strip(qr_value)
                           ELSE self_id),
         barcode_value |-> OrId(IF Truthy(barcode_value)
                                THEN Strip(barcode_value) ELSE self_id),
         aruco_id |-> aruco_id,
         apriltag_id |-> apriltag_id]

\* the cell of a row shorter than the header: row.get(key, '') is None and
\* None.strip() raises AttributeError
StripRaises(row, key) == key \in DOMAIN row /\ row[key] = None

\* row.get(key, '').strip() if key in row else None
OptionalValue(row, key) ==
    IF key \notin DOMAIN row \/ row[key] = None THEN None
    ELSE Strip(row[key])

\* the optional marker id of a row: int() of the stripped cell when the
\* column is there and the cell is not blank, None after a ValueError
MarkerIdOf(row, key) ==
    IF key \notin DOMAIN row \/ row[key] = None THEN None
    ELSE IF ~Truthy(Strip(row[key])) THEN None
    ELSE ParseInt(Strip(row[key]))

LoadInit ==
    /\ pc = "csv"
    /\ error = ""
    /\ raw = None
    /\ fs = None
    /\ config = None
    /\ engine = None
    /\ numEntries = 0
    /\ index = 0
    /\ successful = 0
    /\ skipped = 0
    /\ current_page = -1
    /\ canvas = "None"
    /\ pageBreaks = 0
    /\ drawn = <<>>
    /\ result = NoResult
    /\ warnings = {}
    /\ exporter = None
    /\ inputs = None
    /\ \E fieldnames \in Headers :
          loader = [fieldnames |-> fieldnames, row_num |-> 1, row |-> None,
                    step |-> "closed", entries |-> <<>>]

\* load() up to the loop: the file is opened and must have an 'id' column
OpenCsv ==
    /\ pc = "csv"
    /\ IF "id" \notin loader.fieldnames
       THEN /\ pc' = "exit1"
            /\ error' = "NoIdColumn"
            /\ UNCHANGED loader
       ELSE /\ pc' = "reading"
            /\ loader' = [loader EXCEPT !.step = "opened"]
            /\ UNCHANGED error
    /\ UNCHANGED <<raw, config, engine, numEntries, index, successful, skipped,
                   current_page, canvas, pageBreaks, drawn, result, warnings,
                   exporter, fs, inputs>>

\* one iteration of the loop of load(): the row is empty, has no id, makes
\* the loader fail (a None cell is stripped) or becomes a DataEntry
ReadRow ==
    /\ pc = "reading"
    /\ loader.row_num - 1 < MaxRows
    /\ \E row \in RowsOf(loader.fieldnames) :
          LET row_num == loader.row_num + 1
              read == [loader EXCEPT !.row_num = row_num, !.row = row]
              qr_value == OptionalValue(row, "qr_value")
              barcode_value == OptionalValue(row, "barcode_value")
              aruco_id == MarkerIdOf(row, "aruco_id")
              apriltag_id == MarkerIdOf(row, "apriltag_id")
          IN  IF \A column \in DOMAIN row : ~Truthy(row[column])
              THEN /\ loader' = [read EXCEPT !.step = "empty"]
                   /\ UNCHANGED <<pc, error, warnings>>
              ELSE IF StripRaises(row, "id")
              THEN /\ loader' = [read EXCEPT !.step = "failed"]
                   /\ pc' = "exit1"
                   /\ error' = "ReadFailed"
                   /\ UNCHANGED warnings
              ELSE IF ~Truthy(Strip(row["id"]))
              THEN /\ loader' = [read EXCEPT !.step = "no_id"]
                   /\ warnings' = warnings \cup {"EmptyId"}
                   /\ UNCHANGED <<pc, error>>
              ELSE IF \E key \in {"qr_value", "barcode_value", "aruco_id",
                                    "apriltag_id"} : StripRaises(row, key)
              THEN /\ loader' = [read EXCEPT !.step = "failed"]
                   /\ pc' = "exit1"
                   /\ error' = "ReadFailed"
                   /\ UNCHANGED warnings
              ELSE /\ loader' = [read EXCEPT
                         !.step = "appended",
                         !.entries = Append(@,
                             DataEntryInit(Strip(row["id"]), qr_value,
                                           barcode_value, aruco_id,
                                           apriltag_id))]
                   /\ warnings' = warnings
                        \cup (IF \E key \in {"aruco_id", "apriltag_id"} :
                                    /\ key \in DOMAIN row
                                    /\ Truthy(Strip(row[key]))
                                    /\ ParseInt(Strip(row[key])) = None
                              THEN {"InvalidMarkerId"} ELSE {})
                   /\ UNCHANGED <<pc, error>>
    /\ UNCHANGED <<raw, config, engine, numEntries, index, successful, skipped,
                   current_page, canvas, pageBreaks, drawn, result,
                   exporter, fs, inputs>>

\* the end of the file: the entries are returned unless there is none
CloseCsv ==
    /\ pc = "reading"
    /\ IF loader.entries = <<>>
       THEN /\ pc' = "exit1"
            /\ error' = "NoEntries"
       ELSE /\ pc' = "loaded"
            /\ UNCHANGED error
    /\ loader' = [loader EXCEPT !.step = "closed"]
    /\ UNCHANGED <<raw, config, engine, numEntries, index, successful, skipped,
                   current_page, canvas, pageBreaks, drawn, result, warnings,
                   exporter, fs, inputs>>

LoadNext ==
    \/ OpenCsv
    \/ ReadRow
    \/ CloseCsv

LoadSpec == LoadInit /\ [][LoadNext]_vars

-----------------------------------------------------------------------------
(* main's CLI overrides and Config.__init__'s merge of the defaults, the   *)
(* YAML file and the overrides. A dictionary is Dict(items), any other     *)
(* Python value Leaf(v) with v the value's repr.                            *)

Dict(items) == [isdict |-> TRUE, items |-> items]

Leaf(v) == [isdict |-> FALSE, value |-> v]

EmptyDict == Dict([k \in {} |-> Leaf("None")])

\* the truth value of a command-line value: None, '', 0 and False are false
ReprTruthy(v) == v \notin {"None", "''", "0", "False"}

\* Config._load_defaults: the output and text sections
DefaultConfig ==
    Dict([output |-> Dict([file |-> Leaf("'output.pdf'"),
                           overwrite |-> Leaf("False"),
                           margin_mm |-> Leaf("10")]),
          text |-> Dict([position |-> Leaf("'top'"),
                         alignment |-> Leaf("'left'")])])

\* dict.update semantics: a section of the override replaces the base's
MergeConfigShallow(base, override) ==
    Dict([key \in DOMAIN base.items \cup DOMAIN override.items |->
             IF key \in DOMAIN override.items
             THEN override.items[key] ELSE base.items[key]])

\* Config._merge_config
RECURSIVE MergeConfig(_, _)
MergeConfig(base, override) ==
    Dict([key \in DOMAIN base.items \cup DOMAIN override.items |->
             IF key \notin DOMAIN override.items THEN base.items[key]
             ELSE IF /\ key \in DOMAIN base.items
                     /\ base.items[key].isdict
                     /\ override.items[key].isdict
             THEN MergeConfig(base.items[key], override.items[key])
             ELSE override.items[key]])

\* the options of main and the setting each one overrides; "truthy" options
\* are tested with `if kwargs.get(o)`, the others with `is not None`
Options ==
    {[option |-> "output", section |-> "output", key |-> "file",
      test |-> "truthy", flag |-> FALSE],
     [option |-> "overwrite", section |-> "output", key |-> "overwrite",
      test |-> "truthy", flag |-> TRUE],
     [option |-> "margin_mm", section |-> "output", key |-> "margin_mm",
      test |-> "not_none", flag |-> FALSE],
     [option |-> "aruco_enabled", section |-> "aruco", key |-> "enabled",
      test |-> "truthy", flag |-> TRUE],
     [option |-> "start_index", section |-> "id_assignment",
      key |-> "start_index", test |-> "not_none", flag |-> FALSE]}

\* the test main applies to an option's value before overriding with it
Passes(o, v) == IF o.test = "truthy" THEN ReprTruthy(v) ELSE v # "None"

\* main: cli_overrides built with setdefault(section, {})[key] = value
CliOverrides(kwargs) ==
    LET named == {o \in Options : Passes(o, kwargs[o.option])}
        Of(section, key) ==
            CHOOSE o \in named : o.section = section /\ o.key = key
    IN  Dict([section \in {o.section : o \in named} |->
                Dict([key \in {o.key : o \in {n \in named : n.section = section}} |->
                        IF Of(section, key).flag THEN Leaf("True")
                        ELSE Leaf(kwargs[Of(section, key).option])])])

\* what click passes to main for the five options
Kwargs ==
    [output : {"None", "''", "'labels.pdf'"},
     overwrite : {"False", "True"},
     margin_mm : {"None", "0", "15"},
     aruco_enabled : {"False", "True"},
     start_index : {"None", "3"}]

\* the YAML file: None without --config, {} for an empty file, sections as
\* mappings, and a section left empty ('output:' alone loads as None)
Yamls ==
    {None,
     EmptyDict,
     Dict([output |-> Dict([margin_mm |-> Leaf("20")])]),
     Dict([output |-> Dict([file |-> Leaf("'y.pdf'"),
                            overwrite |-> Leaf("True")]),
           aruco |-> Dict([enabled |-> Leaf("True")])]),
     Dict([id_assignment |-> Dict([start_index |-> Leaf("5")]),
           text |-> Dict([position |-> Leaf("'bottom'")])]),
     Dict([output |-> Leaf("None")])}

MergeInit ==
    /\ pc = "args"
    /\ error = ""
    /\ raw = None
    /\ fs = None
    /\ config = None
    /\ engine = None
    /\ numEntries = 0
    /\ index = 0
    /\ successful = 0
    /\ skipped = 0
    /\ current_page = -1
    /\ canvas = "None"
    /\ pageBreaks = 0
    /\ drawn = <<>>
    /\ result = NoResult
    /\ warnings = {}
    /\ exporter = None
    /\ loader = None
    /\ \E yaml \in Yamls, kwargs \in Kwargs :
          inputs = [yaml |-> yaml, kwargs |-> kwargs, cli_overrides |-> None,
                    config |-> None]

\* main up to the construction of Config
BuildCliOverrides ==
    /\ pc = "args"
    /\ inputs' = [inputs EXCEPT !.cli_overrides = CliOverrides(inputs.kwargs)]
    /\ pc' = "overrides"
    /\ UNCHANGED <<error, raw, config, engine, numEntries, index, successful,
                   skipped, current_page, canvas, pageBreaks, drawn, result,
                   warnings, exporter, fs, loader>>

\* Config.__init__ up to _validate: the defaults, then the YAML file if a
\* path was given, then the overrides if there are any
ConfigInitMerge ==
    /\ pc = "overrides"
    /\ LET defaults == DefaultConfig
           with_yaml == IF inputs.yaml # None
                        THEN MergeConfig(defaults, inputs.yaml)
                        ELSE defaults
           with_cli == IF DOMAIN inputs.cli_overrides.items # {}
                       THEN MergeConfig(with_yaml, inputs.cli_overrides)
                       ELSE with_yaml
       IN  inputs' = [inputs EXCEPT !.config = with_cli]
    /\ pc' = "merged"
    /\ UNCHANGED <<error, raw, config, engine, numEntries, index, successful,
                   skipped, current_page, canvas, pageBreaks, drawn, result,
                   warnings, exporter, fs, loader>>

MergeNext ==
    \/ BuildCliOverrides
    \/ ConfigInitMerge

MergeSpec == MergeInit /\ [][MergeNext]_vars

-----------------------------------------------------------------------------
(* Properties.                                                             *)

HasDimensions(c) ==
    c.layout.label_width_mm # None /\ c.layout.label_height_mm # None

HasGrid(c) ==
    c.layout.labels_per_row # None /\ c.layout.labels_per_column # None

MarginAccepted(c) ==
    /\ QLe(Q(0), c.output.margin_mm)
    /\ QLe(Q(20), QSub(Q(A4_WIDTH_MM), QMul(Q(2), c.output.margin_mm)))
    /\ QLe(Q(20), QSub(Q(A4_HEIGHT_MM), QMul(Q(2), c.output.margin_mm)))

UsableWidth(c) == QSub(Q(A4_WIDTH_MM), QMul(Q(2), c.output.margin_mm))
UsableHeight(c) == QSub(Q(A4_HEIGHT_MM), QMul(Q(2), c.output.margin_mm))

Returned(op) == pc = "returned" /\ result.op = op

FontMm(c) == QMul(c.text.font_size, PT_TO_MM)

\* C1: for every index i >= 0 and every validated grid, get_label_position(i)
\* returns row = (i mod labels_per_page) div labels_per_row, column =
\* (i mod labels_per_page) mod labels_per_row, x_mm = margin + column *
\* (label_width + horizontal_gap), y_mm = margin + row * (label_height +
\* vertical_gap), and get_page_number(i) returns i div labels_per_page with
\* labels_per_page = labels_per_row * labels_per_column; in the scenario
\* margin 10, label 60x40, gaps 5 (18 per page) index 3 is row 1, column 0 at
\* (10, 55) and index 18 is row 0, column 0 at (10, 10) on page 1.
C1_LabelPosition ==
    LET l == config.layout
        labels_per_row == l.labels_per_row[1]
        labels_per_page == l.labels_per_row[1] * l.labels_per_column[1]
        i == result.index
        local == i % labels_per_page
        p == result.value
        scenario == /\ HasDimensions(raw)
                    /\ l.label_width_mm = Q(60) /\ l.label_height_mm = Q(40)
                    /\ l.horizontal_gap_mm = Q(5) /\ l.vertical_gap_mm = Q(5)
                    /\ config.output.margin_mm = Q(10)
    IN  /\ Returned("get_label_position") =>
              /\ p.row = local \div labels_per_row
              /\ p.column = local % labels_per_row
              /\ p.x_mm = QAdd(config.output.margin_mm,
                               QMul(Q(p.column),
                                    QAdd(l.label_width_mm, l.horizontal_gap_mm)))
              /\ p.y_mm = QAdd(config.output.margin_mm,
                               QMul(Q(p.row),
                                    QAdd(l.label_height_mm, l.vertical_gap_mm)))
              /\ (scenario /\ i = 0) =>
                    (p.row = 0 /\ p.column = 0 /\ p.x_mm = <<10, 1>> /\ p.y_mm = <<10, 1>>)
              /\ (scenario /\ i = 3) =>
                    (p.row = 1 /\ p.column = 0 /\ p.x_mm = <<10, 1>> /\ p.y_mm = <<55, 1>>)
              /\ (scenario /\ i = 18) =>
                    (p.row = 0 /\ p.column = 0 /\ p.x_mm = <<10, 1>> /\ p.y_mm = <<10, 1>>)
        /\ Returned("get_page_number") =>
              /\ p = i \div labels_per_page
              /\ (scenario /\ i = 3) => p = 0
              /\ (scenario /\ i = 18) => p = 1

\* a label position past the first page boundary of the 60x40 scenario
C1_Witness ==
    /\ Returned("get_label_position")
    /\ engine.labels_per_page = 18
    /\ result.index = 18
    /\ result.value.x_mm = <<10, 1>>

\* C2: the position functions have no failure path: for every validated
\* configuration, index, barcode width and marker footprint each of
\* get_label_position, get_page_number, get_content_position and
\* get_marker_position returns a result and raises nothing.
C2_NoFailurePath ==
    (pc = "returned" /\ result.op # "get_page_number") => result.value.raised = ""

\* C3: with explicit label dimensions validation computes labels_per_row =
\* floor((usable_width + gap_h) / (label_w + gap_h)) and labels_per_column
\* likewise, fails with NoFit exactly when either count is < 1 and otherwise
\* succeeds with those counts; there is no third outcome.
C3_DimensionsMode ==
    (pc # "config" /\ HasDimensions(raw) /\ MarginAccepted(raw)) =>
        /\ pc # "crashed"
        /\ LET l == raw.layout
               per_row == QFloor(QDiv(QAdd(UsableWidth(raw), l.horizontal_gap_mm),
                                      QAdd(l.label_width_mm, l.horizontal_gap_mm)))
               per_column == QFloor(QDiv(QAdd(UsableHeight(raw), l.vertical_gap_mm),
                                         QAdd(l.label_height_mm, l.vertical_gap_mm)))
           IN  IF per_row < 1 \/ per_column < 1
               THEN pc = "exit1" /\ error = "NoFit"
               ELSE /\ config # None
                    /\ config.layout.labels_per_row = Q(per_row)
                    /\ config.layout.labels_per_column = Q(per_column)

\* C4: with grid counts only, for every integer pair validation either
\* derives label_w = (usable_width - (labels_per_row-1)*gap_h) / labels_per_row
\* and label_h likewise and accepts them when both are > 0, or fails with
\* DegenerateCell when either is <= 0; no unhandled exception is possible.
C4_GridMode ==
    (pc # "config" /\ HasGrid(raw) /\ ~HasDimensions(raw) /\ MarginAccepted(raw)) =>
        /\ pc # "crashed"
        /\ LET l == raw.layout
               label_w == QDiv(QSub(UsableWidth(raw),
                                    QMul(QSub(l.labels_per_row, Q(1)), l.horizontal_gap_mm)),
                               l.labels_per_row)
               label_h == QDiv(QSub(UsableHeight(raw),
                                    QMul(QSub(l.labels_per_column, Q(1)), l.vertical_gap_mm)),
                               l.labels_per_column)
           IN  IF QLt(Q(0), label_w) /\ QLt(Q(0), label_h)
               THEN /\ config # None
                    /\ config.layout.label_width_mm = label_w
                    /\ config.layout.label_height_mm = label_h
               ELSE pc = "exit1" /\ error = "DegenerateCell"

\* C5: during export every drawn label is drawn on the physical page whose
\* number equals get_page_number(index), whatever entries were skipped.
C5_DrawnOnOwnPage ==
    \A k \in 1..Len(drawn) :
        drawn[k].page = GetPageNumber(engine, drawn[k].index)

\* C6: a per-entry failure never aborts the batch: after an entry was skipped
\* the export goes on through every later entry and returns counts with
\* successful + skipped = number of entries, successful being the number of
\* entries drawn.
C6_SkipNeverAborts ==
    /\ skipped >= 1 => pc # "export_failed"
    /\ pc = "done" => /\ successful + skipped = numEntries
                      /\ successful = Len(drawn)

\* C7: vertical arrangement, captions at the bottom: get_content_position
\* returns barcode_y = label.y + label_height - barcode_height - font - margin,
\* the barcode caption directly under the barcode (barcode_y + barcode_height),
\* the QR centred in the band above the reserved bottom region of height
\* barcode_height + font + margin, and the QR caption directly under the QR
\* (qr_y + qr_size + margin).
C7_VerticalBottom ==
    (/\ Returned("get_content_position")
     /\ config.layout.code_arrangement = "vertical"
     /\ config.text.position = "bottom") =>
        LET v == result.value
            label == GetLabelPosition(engine, result.index)
            h == config.layout.label_height_mm
            qr == config.qr.size_mm
            bh == config.barcode.height_mm
            m == config.text.margin_mm
            reserved == QAdd(QAdd(bh, FontMm(config)), m)
        IN  /\ v.raised = ""
            /\ v.barcode_y_mm = QSub(QAdd(label.y_mm, h), reserved)
            /\ v.barcode_text_y_mm = QAdd(v.barcode_y_mm, bh)
            /\ QAdd(v.qr_y_mm, QHalf(qr)) = QAdd(label.y_mm, QHalf(QSub(h, reserved)))
            /\ v.qr_text_y_mm = QAdd(QAdd(v.qr_y_mm, qr), m)

\* C8: vertical arrangement, captions at the top: get_content_position
\* returns qr_y = label.y + font + 2*margin, barcode_y = qr_y + qr_size +
\* code_spacing, the QR caption at label.y + margin and the barcode caption at
\* barcode_y + barcode_height + margin.
C8_VerticalTop ==
    (/\ Returned("get_content_position")
     /\ config.layout.code_arrangement = "vertical"
     /\ config.text.position = "top") =>
        LET v == result.value
            label == GetLabelPosition(engine, result.index)
            qr == config.qr.size_mm
            bh == config.barcode.height_mm
            m == config.text.margin_mm
        IN  /\ v.raised = ""
            /\ v.qr_y_mm = QAdd(QAdd(label.y_mm, FontMm(config)), QMul(Q(2), m))
            /\ v.barcode_y_mm = QAdd(QAdd(v.qr_y_mm, qr), config.layout.code_spacing_mm)
            /\ v.qr_text_y_mm = QAdd(label.y_mm, m)
            /\ v.barcode_text_y_mm = QAdd(QAdd(v.barcode_y_mm, bh), m)

\* C9: caption suppression: whenever the text position is 'none',
\* get_content_position returns qr_text_x_mm = qr_text_y_mm =
\* barcode_text_x_mm = barcode_text_y_mm = 0, in both arrangements, for every
\* label position and barcode width.
C9_CaptionSuppression ==
    (Returned("get_content_position") /\ config.text.position = "none") =>
        /\ result.value.raised = ""
        /\ result.value.qr_text_x_mm = <<0, 1>>
        /\ result.value.qr_text_y_mm = <<0, 1>>
        /\ result.value.barcode_text_x_mm = <<0, 1>>
        /\ result.value.barcode_text_y_mm = <<0, 1>>

\* a suppressed caption in the vertical arrangement, away from the first cell
C9_Witness ==
    /\ Returned("get_content_position")
    /\ config.text.position = "none"
    /\ config.layout.code_arrangement = "vertical"
    /\ result.index = 3
    /\ result.value.raised = ""
    /\ result.value.qr_x_mm # <<0, 1>>

\* C10: every configuration that passes validation, in either input mode, has
\* label_width_mm > 0, label_height_mm > 0, labels_per_row >= 1 and
\* labels_per_column >= 1, so the LayoutEngine built from it has
\* labels_per_page >= 1 and strictly positive cell dimensions.
C10_ValidatedGridPositive ==
    /\ config # None =>
          /\ QLt(Q(0), config.layout.label_width_mm)
          /\ QLt(Q(0), config.layout.label_height_mm)
          /\ QLe(Q(1), config.layout.labels_per_row)
          /\ QLe(Q(1), config.layout.labels_per_column)
    /\ engine # None =>
          /\ engine.labels_per_page >= 1
          /\ QLt(Q(0), engine.label_width_mm)
          /\ QLt(Q(0), engine.label_height_mm)

\* the cell a direct position call was made for
ResultLabel == GetLabelPosition(engine, result.index)

\* C11: in the horizontal arrangement the QR code and the barcode are centred
\* as one block: qr_x = label.x + (label_width - (qr_size + code_spacing +
\* barcode_width)) / 2 and barcode_x = qr_x + qr_size + code_spacing, so the
\* free space left of the QR code equals the free space right of the barcode
\* and the gap between the two is exactly code_spacing.
C11_HorizontalBlockCentred ==
    (Returned("get_content_position")
     /\ config.layout.code_arrangement = "horizontal") =>
        LET v == result.value
            label == ResultLabel
            qr == config.qr.size_mm
            spacing == config.layout.code_spacing_mm
            total == QAdd(QAdd(qr, spacing), result.arg)
        IN  /\ v.raised = ""
            /\ v.qr_x_mm = QAdd(label.x_mm,
                                QHalf(QSub(engine.label_width_mm, total)))
            /\ v.barcode_x_mm = QAdd(QAdd(v.qr_x_mm, qr), spacing)
            /\ QSub(v.qr_x_mm, label.x_mm)
                 = QSub(QAdd(label.x_mm, engine.label_width_mm),
                        QAdd(v.barcode_x_mm, result.arg))
            /\ QSub(v.barcode_x_mm, QAdd(v.qr_x_mm, qr)) = spacing

\* the worked example: QR 25 mm, barcode 40 mm, spacing 5 mm in a cell 80 mm
\* wide give qr_x = label.x + 5 and barcode_x = label.x + 35
C11_Witness ==
    /\ Returned("get_content_position")
    /\ config.layout.code_arrangement = "horizontal"
    /\ engine.label_width_mm = Q(80)
    /\ result.arg = Q(40)
    /\ result.index = 1
    /\ result.value.raised = ""
    /\ result.value.qr_x_mm = QAdd(ResultLabel.x_mm, Q(5))
    /\ result.value.barcode_x_mm = QAdd(ResultLabel.x_mm, Q(35))

\* C12: in the horizontal arrangement the barcode is vertically centred on the
\* full cell height in every caption mode; the QR code is centred on the full
\* cell height for captions at the top or suppressed, and for captions at the
\* bottom it is centred in the band of height label_height - font - margin
\* measured from the cell top.
C12_HorizontalVerticalCentring ==
    (Returned("get_content_position")
     /\ config.layout.code_arrangement = "horizontal") =>
        LET v == result.value
            label == ResultLabel
            h == engine.label_height_mm
            band == QSub(QSub(h, FontMm(config)), config.text.margin_mm)
        IN  /\ v.raised = ""
            /\ QAdd(v.barcode_y_mm, QHalf(config.barcode.height_mm))
                 = QAdd(label.y_mm, QHalf(h))
            /\ QAdd(v.qr_y_mm, QHalf(config.qr.size_mm))
                 = IF config.text.position = "bottom"
                   THEN QAdd(label.y_mm, QHalf(band))
                   ELSE QAdd(label.y_mm, QHalf(h))

\* captions at the bottom: the QR code sits higher than the centred barcode's
\* mid-line would put it
C12_Witness ==
    /\ Returned("get_content_position")
    /\ config.layout.code_arrangement = "horizontal"
    /\ config.text.position = "bottom"
    /\ result.value.raised = ""
    /\ QLt(QAdd(result.value.qr_y_mm, QHalf(config.qr.size_mm)),
           QAdd(result.value.barcode_y_mm, QHalf(config.barcode.height_mm)))

\* C13: in the horizontal arrangement with captions enabled both caption
\* anchors share one Y, label.y + label_height - font - margin for captions at
\* the bottom and label.y + margin for captions at the top, and each caption's
\* X is the horizontal centre of its own element.
C13_HorizontalCaptions ==
    (Returned("get_content_position")
     /\ config.layout.code_arrangement = "horizontal"
     /\ config.text.position # "none") =>
        LET v == result.value
            label == ResultLabel
            m == config.text.margin_mm
            text_y == IF config.text.position = "bottom"
                      THEN QSub(QSub(QAdd(label.y_mm, engine.label_height_mm),
                                     FontMm(config)), m)
                      ELSE QAdd(label.y_mm, m)
        IN  /\ v.raised = ""
            /\ v.qr_text_y_mm = text_y
            /\ v.barcode_text_y_mm = text_y
            /\ v.qr_text_x_mm = QAdd(v.qr_x_mm, QHalf(config.qr.size_mm))
            /\ v.barcode_text_x_mm = QAdd(v.barcode_x_mm, QHalf(result.arg))

\* captions at the top of a cell in the second grid row
C13_Witness ==
    /\ Returned("get_content_position")
    /\ config.layout.code_arrangement = "horizontal"
    /\ config.text.position = "top"
    /\ ResultLabel.row = 1
    /\ result.value.raised = ""
    /\ result.value.qr_text_y_mm = QAdd(ResultLabel.y_mm, Q(2))

\* C14: in the vertical arrangement with captions suppressed the barcode sits
\* directly below the QR code, barcode_y = qr_y + qr_size + code_spacing, the
\* free space above the QR code equals the free space below the barcode, and
\* each element is horizontally centred in the cell on its own.
C14_VerticalNone ==
    (Returned("get_content_position")
     /\ config.layout.code_arrangement = "vertical"
     /\ config.text.position = "none") =>
        LET v == result.value
            label == ResultLabel
            qr == config.qr.size_mm
            bh == config.barcode.height_mm
            centre_x == QAdd(label.x_mm, QHalf(engine.label_width_mm))
        IN  /\ v.raised = ""
            /\ v.barcode_y_mm = QAdd(QAdd(v.qr_y_mm, qr),
                                     config.layout.code_spacing_mm)
            /\ QSub(v.qr_y_mm, label.y_mm)
                 = QSub(QAdd(label.y_mm, engine.label_height_mm),
                        QAdd(v.barcode_y_mm, bh))
            /\ QAdd(v.qr_x_mm, QHalf(qr)) = centre_x
            /\ QAdd(v.barcode_x_mm, QHalf(result.arg)) = centre_x

\* a caption-free vertical pair in a later cell, with a barcode wider than the
\* QR code, so the two elements start at different Xs
C14_Witness ==
    /\ Returned("get_content_position")
    /\ config.layout.code_arrangement = "vertical"
    /\ config.text.position = "none"
    /\ result.index = 2
    /\ result.value.raised = ""
    /\ QLt(result.value.barcode_x_mm, result.value.qr_x_mm)
    /\ QLt(ResultLabel.y_mm, result.value.qr_y_mm)

\* C15: get_marker_position centres the marker horizontally in the cell for
\* every caption mode and centres it vertically in the band
\* [label.y, label.y + label_height - font - 2 margin] for captions at the
\* bottom, [label.y + font + 2 margin, label.y + label_height] for captions at
\* the top and the full cell height for no captions; whenever the footprint
\* fits its band the marker stays inside the band, off the caption row.
C15_MarkerCentring ==
    Returned("get_marker_position") =>
        LET v == result.value
            label == ResultLabel
            fp == result.arg
            reserved == QAdd(FontMm(config),
                             QMul(Q(2), config.text.margin_mm))
            cell_bottom == QAdd(label.y_mm, engine.label_height_mm)
            band_top == IF config.text.position = "top"
                        THEN QAdd(label.y_mm, reserved) ELSE label.y_mm
            band_bottom == IF config.text.position = "bottom"
                           THEN QSub(cell_bottom, reserved) ELSE cell_bottom
        IN  /\ v.raised = ""
            /\ QAdd(v.marker_x_mm, QHalf(fp))
                 = QAdd(label.x_mm, QHalf(engine.label_width_mm))
            /\ QAdd(v.marker_y_mm, QHalf(fp))
                 = QHalf(QAdd(band_top, band_bottom))
            /\ QLe(fp, QSub(band_bottom, band_top)) =>
                  /\ QLe(band_top, v.marker_y_mm)
                  /\ QLe(QAdd(v.marker_y_mm, fp), band_bottom)

\* a 24 mm marker under a top caption in a 40 mm high cell of marker mode: it
\* fits the band and starts below the caption row
C15_Witness ==
    /\ Returned("get_marker_position")
    /\ engine.is_marker_mode
    /\ config.text.position = "top"
    /\ engine.label_height_mm = Q(40)
    /\ result.arg = Q(24)
    /\ result.index = 3
    /\ QLt(QAdd(ResultLabel.y_mm, Q(5)), result.value.marker_y_mm)
    /\ QLe(QAdd(result.value.marker_y_mm, Q(24)),
           QAdd(ResultLabel.y_mm, Q(40)))

\* C18: consecutive indices fill a row left to right and then wrap: the column
\* of index i is i mod labels_per_row on every page; the page number never
\* decreases from i to i + 1 and increases, by exactly one, exactly when i + 1
\* is a multiple of labels_per_page; index labels_per_page - 1 is on page 0 and
\* index labels_per_page on page 1; row and column restart at 0 on every page.
C18_RowMajorPaging ==
    /\ Returned("get_label_position") =>
          /\ result.value.column = result.index % engine.labels_per_row
          /\ result.index % engine.labels_per_page = 0 =>
                /\ result.value.row = 0
                /\ result.value.column = 0
    /\ Returned("get_page_number") =>
          LET i == result.index
              next == GetPageNumber(engine, i + 1)
          IN  /\ next >= result.value
              /\ (i + 1) % engine.labels_per_page = 0 <=> next = result.value + 1
              /\ (i + 1) % engine.labels_per_page # 0 <=> next = result.value
              /\ i = engine.labels_per_page - 1 => result.value = 0
              /\ i = engine.labels_per_page => result.value = 1

\* the first cell of the second page of a 3 x 7 grid: index 21 has row 0,
\* column 0 and page 1, and the index before it is still on page 0
C18_Witness ==
    /\ Returned("get_label_position")
    /\ engine.labels_per_row = 3
    /\ engine.labels_per_page = 21
    /\ result.index = 21
    /\ result.value.row = 0
    /\ result.value.column = 0
    /\ GetPageNumber(engine, 21) = 1
    /\ GetPageNumber(engine, 20) = 0

\* C17: for positive label dimensions and non-negative gaps accepted in
\* dimensions mode, the derived counts never overfill the page:
\* (usable_width - (labels_per_row - 1) * horizontal_gap) / labels_per_row >=
\* label_width, and likewise for the height with labels_per_column and the
\* vertical gap.
C17_DerivedCountsFit ==
    (/\ config # None
     /\ HasDimensions(raw)
     /\ QLt(Q(0), raw.layout.label_width_mm)
     /\ QLt(Q(0), raw.layout.label_height_mm)
     /\ QLe(Q(0), raw.layout.horizontal_gap_mm)
     /\ QLe(Q(0), raw.layout.vertical_gap_mm)) =>
        LET layout == config.layout
            n_row == layout.labels_per_row
            n_col == layout.labels_per_column
        IN  /\ QLe(raw.layout.label_width_mm,
                   QDiv(QSub(UsableWidth(raw),
                             QMul(QSub(n_row, Q(1)), layout.horizontal_gap_mm)),
                        n_row))
            /\ QLe(raw.layout.label_height_mm,
                   QDiv(QSub(UsableHeight(raw),
                             QMul(QSub(n_col, Q(1)), layout.vertical_gap_mm)),
                        n_col))

\* 80 x 40 mm labels with 5 mm gaps on the 190 x 277 mm usable area: two per
\* row with room to spare (92.5 mm available per label), six per column
C17_Witness ==
    /\ config # None
    /\ raw.layout.label_width_mm = Q(80)
    /\ raw.layout.horizontal_gap_mm = Q(5)
    /\ config.layout.labels_per_row = Q(2)
    /\ config.layout.labels_per_column = Q(6)
    /\ QLt(Q(80), QDiv(QSub(UsableWidth(raw), Q(5)), Q(2)))

\* the configuration with the grid counts left unset
WithoutCounts(c) ==
    [c EXCEPT !.layout.labels_per_row = None, !.layout.labels_per_column = None]

\* C19: when both label dimensions and grid counts are supplied, validation
\* only warns about the ambiguity and does not fail because of it: it ends as
\* it does for the dimensions alone, the supplied dimensions are kept
\* unchanged, the supplied counts are replaced by the counts derived from the
\* dimensions, and the LayoutEngine is built from the derived counts.  The
\* warning is written in no other case.
C19_DimensionsTakePrecedence ==
    /\ warnings # {} => (HasDimensions(raw) /\ HasGrid(raw))
    /\ (pc # "config" /\ MarginAccepted(raw)
        /\ HasDimensions(raw) /\ HasGrid(raw)) =>
          LET alone == Validate(WithoutCounts(raw))
              layout == raw.layout
              derived_row ==
                  PyInt(QDiv(QAdd(UsableWidth(raw), layout.horizontal_gap_mm),
                             QAdd(layout.label_width_mm, layout.horizontal_gap_mm)))
              derived_column ==
                  PyInt(QDiv(QAdd(UsableHeight(raw), layout.vertical_gap_mm),
                             QAdd(layout.label_height_mm, layout.vertical_gap_mm)))
          IN  /\ warnings = {"DimensionsTakePrecedence"}
              /\ config # None <=> alone.outcome = "ok"
              /\ pc = "exit1" <=> alone.outcome = "exit1"
              /\ pc = "crashed" <=> alone.outcome = "raise"
              /\ pc \in {"exit1", "crashed"} => error = alone.error
              /\ config # None =>
                    /\ config.layout.label_width_mm = layout.label_width_mm
                    /\ config.layout.label_height_mm = layout.label_height_mm
                    /\ config.layout.labels_per_row = Q(derived_row)
                    /\ config.layout.labels_per_column = Q(derived_column)
              /\ engine # None =>
                    /\ engine.label_width_mm = layout.label_width_mm
                    /\ engine.label_height_mm = layout.label_height_mm
                    /\ engine.labels_per_row = derived_row
                    /\ engine.labels_per_column = derived_column
                    /\ engine.labels_per_page = derived_row * derived_column

\* 80 x 40 mm labels supplied together with a 3 x 7 grid: the warning is
\* written and the engine runs on the derived 2 x 6 grid
C19_Witness ==
    /\ pc = "export"
    /\ raw.layout.label_width_mm = Q(80)
    /\ raw.layout.labels_per_row = Q(3)
    /\ raw.layout.labels_per_column = Q(7)
    /\ warnings = {"DimensionsTakePrecedence"}
    /\ engine.labels_per_row = 2
    /\ engine.labels_per_column = 6
    /\ engine.label_width_mm = Q(80)

\* the entry the last step of the export loop has drawn, if it drew one; every
\* drawn entry is this entry in the state right after its drawing, and drawn
\* entries are never rewritten
JustDrawn ==
    IF pc = "export" /\ Len(drawn) > 0 /\ drawn[Len(drawn)].index = index - 1
    THEN {Len(drawn)} ELSE {}

\* C16: in marker mode the caption's X anchor is label.x for alignment left,
\* label.x + label_width / 2 for center and label.x + label_width for right,
\* and the exporter draws the caption with the text-anchor convention of that
\* same alignment; with captions suppressed the anchor is (0, 0) and no
\* caption is drawn.
C16_MarkerCaptionAnchor ==
    (engine # None /\ engine.is_marker_mode) =>
        \A k \in JustDrawn :
            LET d == drawn[k]
                label == GetLabelPosition(engine, d.index)
                align == config.text.alignment
                anchor_x ==
                    IF align = "left" THEN label.x_mm
                    ELSE IF align = "center"
                    THEN QAdd(label.x_mm, QHalf(engine.label_width_mm))
                    ELSE QAdd(label.x_mm, engine.label_width_mm)
                convention ==
                    IF align = "left" THEN "drawString"
                    ELSE IF align = "center" THEN "drawCentredString"
                    ELSE "drawRightString"
            IN  IF config.text.position = "none"
                THEN /\ d.position.text_x_mm = Q(0)
                     /\ d.position.text_y_mm = Q(0)
                     /\ d.texts = <<>>
                ELSE /\ d.position.text_x_mm = anchor_x
                     /\ d.texts = <<[x_mm |-> anchor_x,
                                     y_mm |-> d.position.text_y_mm,
                                     call |-> convention]>>

\* a right-aligned marker caption in the second cell, drawn right-anchored at
\* the cell's right edge
C16_Witness ==
    /\ engine # None
    /\ engine.is_marker_mode
    /\ config.text.alignment = "right"
    /\ config.text.position = "bottom"
    /\ Len(drawn) >= 1
    /\ drawn[Len(drawn)].index = 1
    /\ drawn[Len(drawn)].texts[1].call = "drawRightString"
    /\ drawn[Len(drawn)].texts[1].x_mm
         = QAdd(GetLabelPosition(engine, 1).x_mm, engine.label_width_mm)

\* the engine as it would be under another text alignment
WithAlignment(e, a) == [e EXCEPT !.config.text.alignment = a]

\* C20: the text alignment does not influence the code-pair layout: for any
\* label and barcode width get_content_position gives the same result (or
\* fails alike) under every alignment, and the exporter draws both code-pair
\* captions centre-anchored; in marker mode the alignment changes only the
\* caption's X anchor, never the marker position or the caption's Y.
C20_AlignmentNonInterference ==
    engine # None =>
        /\ \A k \in JustDrawn, a \in TextAlignments :
              LET d == drawn[k]
                  label == GetLabelPosition(engine, d.index)
              IN  IF engine.is_marker_mode
                  THEN LET other == GetMarkerPosition(WithAlignment(engine, a),
                                        label, FootprintSizeMm)
                       IN  /\ other.marker_x_mm = d.position.marker_x_mm
                           /\ other.marker_y_mm = d.position.marker_y_mm
                           /\ other.text_y_mm = d.position.text_y_mm
                  ELSE /\ GetContentPosition(WithAlignment(engine, a), label,
                              d.position.barcode_width_mm) = d.position
                       /\ Len(d.texts) = IF config.text.position = "none"
                                         THEN 0 ELSE 2
                       /\ \A t \in DOMAIN d.texts :
                             d.texts[t].call = "drawCentredString"
        /\ (pc = "export_failed" /\ ~engine.is_marker_mode) =>
              \A a \in TextAlignments, w \in BarcodeWidths :
                 GetContentPosition(WithAlignment(engine, a),
                     GetLabelPosition(engine, index), w).raised = error

\* a code pair drawn under a right-aligned text configuration: both captions
\* are still centre-anchored on their own elements
C20_Witness ==
    /\ engine # None
    /\ ~engine.is_marker_mode
    /\ config.text.alignment = "right"
    /\ config.text.position = "top"
    /\ Len(drawn) = 2
    /\ Len(drawn[2].texts) = 2
    /\ drawn[2].texts[1].call = "drawCentredString"
    /\ drawn[2].texts[2].call = "drawCentredString"
    /\ drawn[2].texts[1].x_mm
         = QAdd(drawn[2].position.qr_x_mm, QHalf(config.qr.size_mm))

\* C21: every configuration that passes validation, also one without an aruco
\* or apriltag section and one with both marker families enabled, puts the
\* run in exactly one of code-pair mode and marker mode: once main has passed
\* its set-up, either the QR and barcode generators exist or exactly one
\* marker generator does, never both kinds and never neither, and the
\* exporter's is_marker_mode equals the layout engine's.
C21_ExactlyOneMode ==
    (config # None /\ pc \notin {"validated", "ready", "returned"}) =>
        /\ exporter # None
        /\ engine # None
        /\ \/ /\ exporter.qr_gen /\ exporter.barcode_gen
              /\ ~exporter.aruco_gen /\ ~exporter.apriltag_gen
           \/ /\ ~exporter.qr_gen /\ ~exporter.barcode_gen
              /\ exporter.aruco_gen # exporter.apriltag_gen
        /\ exporter.is_marker_mode = engine.is_marker_mode

\* C22: the geometry core is pure: a call of get_label_position,
\* get_page_number, get_content_position or get_marker_position leaves every
\* field of the LayoutEngine and the configuration unchanged; throughout an
\* export run the engine keeps the counts and cell dimensions computed at its
\* construction; and a call repeated with the same arguments returns the
\* result it returned before.
C22_GeometryPure ==
    [][/\ pc \in {"ready", "returned"} =>
            /\ engine' = engine
            /\ config' = config
       /\ (pc = "returned" /\ pc' = "returned") => result' = result
       /\ pc = "export" =>
            /\ engine' = engine
            /\ config' = config
            /\ engine'.labels_per_page
                 = engine'.labels_per_row * engine'.labels_per_column
            /\ engine'.label_width_mm = config'.layout.label_width_mm]_vars

\* get_content_position has answered for a later cell on an engine that
\* still has the grid of its construction; the call can be repeated from here
C22_Witness ==
    /\ pc = "returned"
    /\ result.op = "get_content_position"
    /\ result.index = 2
    /\ result.value.raised = ""
    /\ engine = LayoutEngineInit(config)

\* C23: validation accepts a margin only if it is non-negative and leaves at
\* least 20 mm of usable width and of usable height on the 210 x 297 mm page;
\* any other margin is rejected with an error before the layout is resolved,
\* and the usable area the LayoutEngine computes is the one validation checked.
C23_MarginValidation ==
    pc # "config" =>
        /\ config # None =>
              /\ QLe(Q(0), config.output.margin_mm)
              /\ QLe(Q(20), QSub(Q(210), QMul(Q(2), config.output.margin_mm)))
              /\ QLe(Q(20), QSub(Q(297), QMul(Q(2), config.output.margin_mm)))
        /\ ~MarginAccepted(raw) =>
              /\ pc = "exit1"
              /\ error \in {"NegativeMargin", "MarginsTooLarge"}
              /\ config = None
              /\ engine = None
        /\ engine # None =>
              /\ engine.usable_width_mm = UsableWidth(raw)
              /\ engine.usable_height_mm = UsableHeight(raw)

\* the largest accepted margin of the model, 95 mm: exactly 20 mm of usable
\* width are left and the engine is built on them
C23_Witness ==
    /\ pc = "export"
    /\ raw.output.margin_mm = Q(95)
    /\ engine.usable_width_mm = Q(20)
    /\ engine.usable_height_mm = Q(107)

\* the file a run with configuration c writes: the configured output path
\* after the '.pdf' extension has been enforced
WrittenPath(c) ==
    IF Lower(c.output.file.suffix) # ".pdf"
    THEN WithSuffix(c.output.file, ".pdf") ELSE c.output.file

\* C25: overwrite protection: if the overwrite option is not set and the file
\* that will actually be written (the output path after the '.pdf' extension
\* is enforced) already exists, validation fails with an error and the run
\* never writes to that file; an existing file is replaced only when
\* overwrite is set.
C25_OverwriteProtection ==
    /\ (pc # "config" /\ ~raw.output.overwrite
        /\ WrittenPath(raw) \in fs.existed) =>
          /\ config = None
          /\ pc = "exit1"
    /\ \A p \in fs.written : p \in fs.existed => raw.output.overwrite

\* the indices of the entries processed so far that were skipped
SkippedIndices ==
    {s \in 0..(index - 1) : \A k \in DOMAIN drawn : drawn[k].index # s}

\* C26: a skipped entry has no effect on the page state: the step that skips
\* an entry only adds one to the skipped counter and leaves canvas,
\* current_page, the page breaks and the drawings unchanged; every drawn entry
\* uses the cell get_label_position(i) of its own index i, and nothing is
\* drawn in the cell (page, row, column) of a skipped entry.
C26_SkipFrame ==
    /\ [](\A k \in DOMAIN drawn :
             /\ drawn[k].label = GetLabelPosition(engine, drawn[k].index)
             /\ \A s \in SkippedIndices :
                   ~ /\ drawn[k].page = GetPageNumber(engine, s)
                     /\ drawn[k].label.row = GetLabelPosition(engine, s).row
                     /\ drawn[k].label.column
                          = GetLabelPosition(engine, s).column)
    /\ [][skipped' = skipped + 1 =>
             UNCHANGED <<canvas, current_page, pageBreaks, drawn, successful>>]_vars

\* ceil(n / d) for n >= 0 and d >= 1
CeilDiv(n, d) == (n + d - 1) \div d

\* C28: when no entry is skipped, exporting n >= 1 entries completes and starts
\* exactly ceil(n / labels_per_page) pages: after i entries current_page is
\* ceil(i / labels_per_page) - 1 (so it starts at -1 and grows by one per page
\* start), a page exists whenever something is drawn, one page break was
\* issued between consecutive pages, and at the end the document is saved.
C28_PagesWithoutSkips ==
    (pc \in {"export", "export_failed", "done"} /\ skipped = 0) =>
        /\ pc # "export_failed"
        /\ current_page = CeilDiv(index, engine.labels_per_page) - 1
        /\ pageBreaks = (IF current_page > 0 THEN current_page ELSE 0)
        /\ Len(drawn) = index
        /\ \A k \in DOMAIN drawn :
              drawn[k].page = CeilDiv(drawn[k].index + 1,
                                      engine.labels_per_page) - 1
        /\ index >= 1 => canvas # "None"
        /\ (pc = "done" /\ numEntries >= 1) =>
              /\ canvas = "saved"
              /\ index = numEntries
              /\ current_page + 1 = CeilDiv(numEntries, engine.labels_per_page)

\* C29: in marker mode an entry at list position i without a numeric id is
\* given start_index + i when ids are auto-assigned, so that the ids assigned
\* to different entries differ; with auto-assignment disabled such an entry is
\* never drawn but counted as skipped; an entry with an explicit id keeps it.
C29_NumericIdAssignment ==
    (pc \in {"export", "export_failed", "done"} /\ exporter.is_marker_mode) =>
        /\ successful + skipped = index
        /\ successful = Len(drawn)
        /\ \A k \in DOMAIN drawn :
              IF drawn[k].entry_id # None
              THEN drawn[k].numeric_id = drawn[k].entry_id
              ELSE /\ config.id_assignment.auto_assign_numeric_ids
                   /\ drawn[k].numeric_id
                        = <<config.id_assignment.start_index + drawn[k].index>>
        /\ \A j, k \in DOMAIN drawn :
              (j # k /\ drawn[j].entry_id = None /\ drawn[k].entry_id = None)
                  => drawn[j].numeric_id # drawn[k].numeric_id

\* two entries without ids were drawn with the ids 7 and 8 (start_index 7)
C29_Witness ==
    /\ pc = "done"
    /\ exporter.is_marker_mode
    /\ Len(drawn) = 2
    /\ drawn[1].entry_id = None /\ drawn[1].numeric_id = <<7>>
    /\ drawn[2].entry_id = None /\ drawn[2].numeric_id = <<8>>

\* C27: for a validated configuration with positive label dimensions and
\* non-negative gaps, the cell [x_mm, x_mm + label_width] x [y_mm, y_mm +
\* label_height] returned by get_label_position(i) lies inside the usable area
\* [margin, 210 - margin] x [margin, 297 - margin] with row <
\* labels_per_column and column < labels_per_row, and a different index on
\* the same page has a different (row, column) and a cell whose interior is
\* disjoint from this one.
C27_CellsInsideAndDisjoint ==
    LET i == result.index
        p == result.value
        w == engine.label_width_mm
        h == engine.label_height_mm
        margin_mm == config.output.margin_mm
    IN  (/\ Returned("get_label_position")
         /\ QLt(Q(0), w) /\ QLt(Q(0), h)
         /\ QLe(Q(0), engine.horizontal_gap_mm)
         /\ QLe(Q(0), engine.vertical_gap_mm)) =>
            /\ QLe(margin_mm, p.x_mm)
            /\ QLe(QAdd(p.x_mm, w), QSub(Q(210), margin_mm))
            /\ QLe(margin_mm, p.y_mm)
            /\ QLe(QAdd(p.y_mm, h), QSub(Q(297), margin_mm))
            /\ p.row >= 0 /\ p.row < engine.labels_per_column
            /\ p.column >= 0 /\ p.column < engine.labels_per_row
            /\ \A j \in 0..MaxIndex :
                  (j # i /\ GetPageNumber(engine, j) = GetPageNumber(engine, i)) =>
                     LET q == GetLabelPosition(engine, j)
                     IN  /\ <<q.row, q.column>> # <<p.row, p.column>>
                         /\ \/ QLe(QAdd(q.x_mm, w), p.x_mm)
                            \/ QLe(QAdd(p.x_mm, w), q.x_mm)
                            \/ QLe(QAdd(q.y_mm, h), p.y_mm)
                            \/ QLe(QAdd(p.y_mm, h), q.y_mm)

\* the last cell of the 3 x 6 grid of 60 x 40 mm labels with 5 mm gaps: row 5,
\* column 2, its right edge exactly on the usable area's right edge (200 mm)
C27_Witness ==
    /\ Returned("get_label_position")
    /\ engine.labels_per_page = 18
    /\ engine.horizontal_gap_mm = Q(5)
    /\ result.index = 17
    /\ result.value.row = 5 /\ result.value.column = 2
    /\ QAdd(result.value.x_mm, engine.label_width_mm) = Q(200)

\* the entry that the row just read was turned into
JustLoaded ==
    IF pc = "reading" /\ loader.step = "appended"
    THEN {loader.entries[Len(loader.entries)]} ELSE {}

NonBlank(row, key) ==
    key \in DOMAIN row /\ row[key] # None /\ Truthy(Strip(row[key]))

\* C24 as stated: the entry's qr_value is the row's qr_value itself when the
\* column is present and non-blank and the entry id otherwise, likewise
\* barcode_value; no loaded entry has an empty id, qr_value or barcode_value.
C24_ValuesDefaultToId ==
    /\ \A e \in JustLoaded :
          /\ e.qr_value = IF NonBlank(loader.row, "qr_value")
                          THEN loader.row["qr_value"] ELSE e.id
          /\ e.barcode_value = IF NonBlank(loader.row, "barcode_value")
                               THEN loader.row["barcode_value"] ELSE e.id
    /\ loader # None =>
          \A k \in DOMAIN loader.entries :
              /\ loader.entries[k].id.chars # <<>>
              /\ loader.entries[k].qr_value.chars # <<>>
              /\ loader.entries[k].barcode_value.chars # <<>>

\* C24: for every loaded CSV row the entry's id is the row's id with the
\* surrounding whitespace removed, its qr_value is the row's qr_value with the
\* surrounding whitespace removed when that column is present and non-blank
\* and the entry id otherwise, and likewise barcode_value; so no loaded entry
\* has an empty id, qr_value or barcode_value.
C24_ValuesStrippedOrId ==
    /\ \A e \in JustLoaded :
          /\ e.id = Strip(loader.row["id"])
          /\ e.qr_value = IF NonBlank(loader.row, "qr_value")
                          THEN Strip(loader.row["qr_value"]) ELSE e.id
          /\ e.barcode_value = IF NonBlank(loader.row, "barcode_value")
                               THEN Strip(loader.row["barcode_value"])
                               ELSE e.id
    /\ loader # None =>
          \A k \in DOMAIN loader.entries :
              /\ loader.entries[k].id.chars # <<>>
              /\ loader.entries[k].qr_value.chars # <<>>
              /\ loader.entries[k].barcode_value.chars # <<>>

\* the row ' a ', ' b', '' was loaded as id 'a', qr_value 'b' and, its
\* barcode_value being blank, barcode_value 'a'
C24_Witness ==
    /\ pc = "reading"
    /\ loader.step = "appended"
    /\ loader.fieldnames = {"id", "qr_value", "barcode_value"}
    /\ loader.row = [id |-> Str(<<" ", "a", " ">>),
                     qr_value |-> Str(<<" ", "b">>),
                     barcode_value |-> Str(<<>>)]
    /\ loader.entries[Len(loader.entries)]
         = [id |-> Str(<<"a">>), qr_value |-> Str(<<"b">>),
            barcode_value |-> Str(<<"a">>), aruco_id |-> None,
            apriltag_id |-> None]

\* a setting that no source names
Absent == Leaf("absent")

\* the value of setting section.key in dictionary d
Lookup(d, section, key) ==
    IF /\ d # None
       /\ section \in DOMAIN d.items
       /\ d.items[section].isdict
       /\ key \in DOMAIN d.items[section].items
    THEN d.items[section].items[key] ELSE Absent

SettingPaths ==
    {<<"output", "file">>, <<"output", "overwrite">>, <<"output", "margin_mm">>,
     <<"text", "position">>, <<"text", "alignment">>, <<"aruco", "enabled">>,
     <<"id_assignment", "start_index">>}

\* the value of the lower-precedence sources: the YAML file's, else the default
YamlOrDefault(section, key) ==
    IF Lookup(inputs.yaml, section, key) # Absent
    THEN Lookup(inputs.yaml, section, key)
    ELSE Lookup(DefaultConfig, section, key)

YamlSectionsAreMappings ==
    inputs.yaml # None =>
        \A section \in DOMAIN inputs.yaml.items :
            inputs.yaml.items[section].isdict

====
